---------------------------- MODULE Spec2Model ----------------------------
(***************************************************************************)
(* A model of fjl/discv5-streams: the sub-protocol session layer           *)
(* (session/), the shared UDP socket (sharedsocket/), the uTP stream       *)
(* transport (utpconn/) and the file transfer coordinator (fileserver/).   *)
(*                                                                         *)
(* Each subsystem has its own variables and its own specification; a       *)
(* specification leaves the variables of the other subsystems unchanged.   *)
(***************************************************************************)
EXTENDS Integers, Sequences, FiniteSets, TLC

VARIABLES
    \* ---- session/session.go: two peers of one key agreement
    peer,       \* peer[side]: the Session held on that side
    wire,       \* the last packet emitted, with its sender and plaintext
                \* (a sequence of at most one element, as decoded is)
    encErr,     \* encErr[side]: the last Encode on side returned an error
    calls,      \* calls[side]: Encode calls made on the session of side
    decoded,    \* the last Decode: its side, the packet's origin, the result
    sent,       \* history: the nonces side emitted, in order (SpecNonce)
    failed,     \* history: the counter values of side's failed Encode calls
    \* ---- session/store.go: one Store
    sobj,       \* the Session and RecipientState objects allocated so far
    heapIndex,  \* heapIndex[o]: Session.heapIndex of object o
    sessions,   \* Store.sessions: sessionKey -> object
    exp,        \* Store.exp: the expiry queue, as the heap's array
    now,        \* Store.clock.Now(), in seconds
    istate,     \* the InitiatorState in use (a sequence of at most one)
    crashed,    \* a panic ended the program
    lastUse,    \* history: when object o was last stored or looked up
    lastOp,     \* history: the last Get or HandlePacket and its outcome
    \* ---- sharedsocket/conn.go: one Conn, its pump, its outlets
    hlist,      \* the published handlerList: [hs, defaultConn]
    nextStamp,  \* history: AddHandler calls so far, plus one
    dcs,        \* the defaultConn objects made so far
    dmutex,     \* dmutex[k]: who holds defaultConn k's mutex
    cmutex,     \* who holds Conn.mutex
    quit,       \* Conn.quit: "open", "closed" or "nil"
    sockClosed, \* the underlying UDP socket is closed
    pump,       \* readLoop: its position, datagram, list snapshot, index
    closer,     \* a caller of Conn.Close: its position and dcToClose
    dcloser,    \* a caller of defaultConn.Close: its position and outlet
    ndgram,     \* datagrams read from the socket so far
    cur,        \* history: the offers and the fate of pump's datagram
    slast,      \* history: the last call of the Conn's or an outlet's API
    \* ---- fileserver: one transfer between a Client and a Server
    xreq,       \* the caller of Client.Request: position and results
    xloop,      \* Client.loop: position, and the send it is blocked in
    xtab,       \* Client.loop's transfers map holds the transfer's key
    xt,         \* the clientTransfer object
    xstarted,   \* the transfer's started channel (capacity 1)
    xaccept,    \* xaccept[j]: the accept channel of start handler j
    xhs,        \* xhs[j]: the j-th run of Client.handleXferStart
    xcall,      \* the TALK calls: init, start1, start2
    xsrv,       \* Server.handleXferInit, the handler goroutine, SendFile
    xquit,      \* Client.quit is closed
    xclk,       \* the client's clock, and a tick waiting in ticker.C
    \* ---- utpconn + fileserver/utpsession.go: one stream
    wr,         \* the writer (SendFile): its bytes B, its progress
    sconn,      \* the sender's Conn: seq_nr, send-buffer, state
    rconn,      \* the receiver's Conn: ack_nr, recv-buffer, read buffer
    unet,       \* the datagrams in flight, each with its destination
    rd,         \* the reader: the bytes Read returned, and whether EOF
    hist,       \* history: the network dropped a datagram
    \* ---- seqLess: one comparison
    sq,         \* the two sequence numbers compared, and seqLess's answers
    \* ---- sharedsocket/conn.go: the handler lists as objects in memory
    harrs,      \* the backing arrays of the hs slices
    hobjs,      \* the handlerList objects: hs as (array, length), defaultConn
    hptr,       \* c.handlers: the handlerList published last
    hdisp,      \* readLoop's dispatch: the list it loaded and its position
    hpub,       \* history: the content of each handlerList when it was made
    \* ---- utpconn: one send record, its resend timer and its Conn
    snd,        \* the record, the timer's callback, the clock, the packets sent
    \* ---- kcpxfer/xfer.go: one inbound transfer request on a Server
    kx          \* the TransferRequest, handleTalk, the timer, the loop's map

sessVars == <<peer, wire, encErr, calls, decoded, sent, failed>>
storeVars == <<sobj, heapIndex, sessions, exp, now, istate, crashed,
               lastUse, lastOp>>

sockVars == <<hlist, nextStamp, dcs, dmutex, cmutex, quit, sockClosed, pump,
              closer, dcloser, ndgram, cur, slast>>
xferVars == <<xreq, xloop, xtab, xt, xstarted, xaccept, xhs, xcall, xsrv, xquit,
              xclk>>
streamVars == <<wr, sconn, rconn, unet, rd, hist>>
seqVars == <<sq>>
cowVars == <<harrs, hobjs, hptr, hdisp, hpub>>
sendVars == <<snd>>
kcpVars == <<kx>>
vars == <<sessVars, storeVars, sockVars, xferVars, streamVars, seqVars, cowVars,
          sendVars, kcpVars>>

\* What the actions of one subsystem leave unchanged
notSess == <<storeVars, sockVars, xferVars, streamVars, seqVars, cowVars,
    sendVars, kcpVars>>
notStore == <<sessVars, sockVars, xferVars, streamVars, seqVars, cowVars,
    sendVars, kcpVars>>
notSock == <<sessVars, storeVars, xferVars, streamVars, seqVars, cowVars,
    sendVars, kcpVars>>
notXfer == <<sessVars, storeVars, sockVars, streamVars, seqVars, cowVars,
    sendVars, kcpVars>>
notStream == <<sessVars, storeVars, sockVars, xferVars, seqVars, cowVars,
    sendVars, kcpVars>>
notSeq == <<sessVars, storeVars, sockVars, xferVars, streamVars, cowVars,
    sendVars, kcpVars>>
notCow == <<sessVars, storeVars, sockVars, xferVars, streamVars, seqVars, sendVars,
    kcpVars>>
notSend == <<sessVars, storeVars, sockVars, xferVars, streamVars, seqVars, cowVars,
    kcpVars>>
notKcp == <<sessVars, storeVars, sockVars, xferVars, streamVars, seqVars, cowVars,
    sendVars>>

(***************************************************************************)
(* Bounds of the model.                                                    *)
(***************************************************************************)
NumSecrets == 2     \* distinct non-zero 16-byte secrets
NumRandom == 2      \* distinct values of the 8 random nonce bytes
MaxSessions == 2    \* Session objects allocated in one Store
MaxQueue == 3       \* entries of the expiry queue
MaxClock == 10      \* seconds the Store's clock runs
MaxAdds == 3        \* AddHandler calls on the Conn
MaxOutlets == 2     \* default outlets created on the Conn
MaxDatagrams == 2   \* datagrams the socket receives
MaxCalls == 2       \* Encode calls observed per session

(***************************************************************************)
(* session/session.go                                                      *)
(***************************************************************************)
Sides == {"initiator", "recipient"}
Other(side) == IF side = "initiator" THEN "recipient" ELSE "initiator"

Secrets == 1..NumSecrets
ZeroSecret == 0
Protocols == {"xfer", "kcp"}
RandomTails == 0..(NumRandom - 1)
Msgs == {<<>>, <<116>>}

\* nonceCounter is a uint32, held as its two big-endian 16-bit halves
Half == 65536
CtrZero == [hi |-> 0, lo |-> 0]
CtrMax == [hi |-> Half - 1, lo |-> Half - 1]
\* s.nonceCounter++
CtrInc(c) ==
    IF c.lo + 1 < Half THEN [c EXCEPT !.lo = @ + 1]
    ELSE IF c.hi + 1 < Half THEN [hi |-> c.hi + 1, lo |-> 0]
    ELSE CtrZero
\* the order of the 4-byte big-endian prefixes
CtrLess(a, b) == a.hi < b.hi \/ (a.hi = b.hi /\ a.lo < b.lo)
\* Decode rejects packets shorter than 8 (id) + 12 (nonce) + 16 (GCM tag)
MinPacketLen == 36

InfoPrefix == "discv5 subprotocol session"
\* the info prefix of newsession in the protocol document
DocInfoPrefix == "discv5 sub-protocol session"

\* hkdf.New(sha256.New, secret, nil, info) read at [lo, hi): an injective
\* function of its inputs.
HKDF(secret, salt, info, lo, hi) ==
    [hkdf |-> secret, salt |-> salt, info |-> info, lo |-> lo, hi |-> hi]

\* Session.derive: the key material of one side
derive_NoSwap(protocol, initiatorSec, recipientSec, isRecipient) ==
    LET sec == <<initiatorSec, recipientSec>>
        info == <<InfoPrefix, protocol>>
    IN  [ingressKey |-> HKDF(sec, <<>>, info, 0, 16),
         egressKey |-> HKDF(sec, <<>>, info, 16, 32),
         ingressID |-> HKDF(sec, <<>>, info, 32, 40),
         egressID |-> HKDF(sec, <<>>, info, 40, 48)]

derive(protocol, initiatorSec, recipientSec, isRecipient) ==
    LET sec == <<initiatorSec, recipientSec>>
        info == <<InfoPrefix, protocol>>
        k == [ingressKey |-> HKDF(sec, <<>>, info, 0, 16),
              egressKey |-> HKDF(sec, <<>>, info, 16, 32),
              ingressID |-> HKDF(sec, <<>>, info, 32, 40),
              egressID |-> HKDF(sec, <<>>, info, 40, 48)]
    IN  IF isRecipient
        THEN [ingressKey |-> k.egressKey, egressKey |-> k.ingressKey,
              ingressID |-> k.egressID, egressID |-> k.ingressID]
        ELSE k

\* A Session as the AEAD layer sees it
NewSession(protocol, initiatorSec, recipientSec, isRecipient, counter) ==
    LET k == derive(protocol, initiatorSec, recipientSec, isRecipient)
    IN  [ingressKey |-> k.ingressKey, egressKey |-> k.egressKey,
         ingressID |-> k.ingressID, egressID |-> k.egressID,
         nonceCounter |-> counter]

\* cipher.AEAD.Seal / Open of AES-GCM: Open returns the plaintext exactly when
\* key, nonce and associated data are those of the Seal and the ciphertext is
\* intact.
Seal(key, nonce, plaintext, authData) ==
    [key |-> key, nonce |-> nonce, pt |-> plaintext, ad |-> authData,
     intact |-> TRUE]

Open(key, nonce, ciphertext, authData) ==
    IF /\ ciphertext.intact
       /\ ciphertext.key = key
       /\ ciphertext.nonce = nonce
       /\ ciphertext.ad = authData
    THEN [ok |-> TRUE, data |-> ciphertext.pt]
    ELSE [ok |-> FALSE, data |-> <<>>]

encrypt(s, plaintext, nonce, authData) ==
    Seal(s.egressKey, nonce, plaintext, authData)

decrypt_EgressKey(s, ciphertext, nonce, authData) ==
    Open(s.egressKey, nonce, ciphertext, authData)

decrypt(s, ciphertext, nonce, authData) ==
    Open(s.ingressKey, nonce, ciphertext, authData)

\* Session.Encode: the packet, or an error when the random source fails. The
\* counter is consumed in both cases.
EncodeNonce(s, rnd) == [ctr |-> s.nonceCounter, rnd |-> rnd]

EncodeSession(s) ==
    [s EXCEPT !.nonceCounter = CtrInc(s.nonceCounter)]

EncodePacket(s, msg, rnd) ==
    LET nonceData == EncodeNonce(s, rnd)
        idData == s.egressID
    IN  [id |-> idData, nonce |-> nonceData,
         ct |-> encrypt(s, msg, nonceData, idData),
         len |-> MinPacketLen + Len(msg)]

\* Session.Decode
Decode(s, packet) ==
    IF packet.len < MinPacketLen
    THEN [ok |-> FALSE, data |-> <<>>]
    ELSE decrypt(s, packet.ct, packet.nonce, packet.id)

\* fileserver/utpsession.go, utpsession.deliver, the SessionPacketHandler of
\* the file transfer: what is handed to conn.PacketIn, if anything
deliver(s, packet) ==
    LET d == Decode(s, packet)
    IN  IF ~d.ok THEN <<>> ELSE <<d.data[1]>>

\* What a network attacker can make of a packet it has seen
TamperKinds == {"ciphertext", "id", "nonce", "truncate"}
Tamper(packet, kind) ==
    CASE kind = "ciphertext" -> [packet EXCEPT !.ct.intact = FALSE]
      [] kind = "id" -> [packet EXCEPT !.id.hkdf = <<ZeroSecret, ZeroSecret>>]
      [] kind = "nonce" -> [packet EXCEPT !.nonce.rnd = (@ + 1) % NumRandom]
      [] kind = "truncate" -> [packet EXCEPT !.len = MinPacketLen - 1]

StartCounters == {CtrZero, CtrMax}

SessInit ==
    /\ \E p \in Protocols, a \in Secrets, b \in Secrets, c \in StartCounters :
          peer = [initiator |-> NewSession(p, a, b, FALSE, c),
                  recipient |-> NewSession(p, a, b, TRUE, c)]
    /\ wire = <<>>
    /\ encErr = [side \in Sides |-> FALSE]
    /\ calls = [side \in Sides |-> 0]
    /\ decoded = <<>>
    /\ sent = [side \in Sides |-> <<>>]
    /\ failed = [side \in Sides |-> <<>>]

\* A new key agreement between the two peers (Initiator, Recipient, Establish)
Rekey(p, a, b) ==
    /\ peer' = [initiator |-> NewSession(p, a, b, FALSE, CtrZero),
                recipient |-> NewSession(p, a, b, TRUE, CtrZero)]
    /\ wire' = <<>>
    /\ encErr' = [side \in Sides |-> FALSE]
    /\ calls' = [side \in Sides |-> 0]
    /\ decoded' = <<>>
    /\ sent' = [side \in Sides |-> <<>>]
    /\ failed' = [side \in Sides |-> <<>>]
    /\ UNCHANGED notSess

\* Session.Encode returning a packet
Encode(side, msg, rnd) ==
    /\ calls[side] < MaxCalls
    /\ calls' = [calls EXCEPT ![side] = @ + 1]
    /\ peer' = [peer EXCEPT ![side] = EncodeSession(peer[side])]
    /\ wire' = <<[from |-> side, msg |-> msg,
                  pkt |-> EncodePacket(peer[side], msg, rnd)]>>
    /\ encErr' = [encErr EXCEPT ![side] = FALSE]
    /\ UNCHANGED decoded
    /\ UNCHANGED notSess

\* Session.Encode returning an error, were the counter to advance only
\* once the nonce is complete
EncodeFail_KeepCounter(side) ==
    /\ calls[side] < MaxCalls
    /\ calls' = [calls EXCEPT ![side] = @ + 1]
    /\ encErr' = [encErr EXCEPT ![side] = TRUE]
    /\ UNCHANGED <<peer, wire, decoded>>
    /\ UNCHANGED notSess

\* Session.Encode returning an error: crand.Read failed
EncodeFail(side) ==
    /\ calls[side] < MaxCalls
    /\ calls' = [calls EXCEPT ![side] = @ + 1]
    /\ peer' = [peer EXCEPT ![side] = EncodeSession(peer[side])]
    /\ encErr' = [encErr EXCEPT ![side] = TRUE]
    /\ UNCHANGED <<wire, decoded>>
    /\ UNCHANGED notSess

\* The receiving side decodes the last packet
DecodeStep ==
    /\ wire # <<>>
    /\ LET side == Other(wire[1].from)
       IN  decoded' = <<[side |-> side, genuine |-> TRUE, msg |-> wire[1].msg,
                         res |-> Decode(peer[side], wire[1].pkt)]>>
    /\ UNCHANGED <<peer, wire, encErr, calls, sent, failed>>
    /\ UNCHANGED notSess

\* The receiving side decodes what an attacker made of the last packet
DecodeForged(kind) ==
    /\ wire # <<>>
    /\ LET side == Other(wire[1].from)
       IN  decoded' = <<[side |-> side, genuine |-> FALSE, msg |-> wire[1].msg,
                         res |-> Decode(peer[side], Tamper(wire[1].pkt, kind))]>>
    /\ UNCHANGED <<peer, wire, encErr, calls, sent, failed>>
    /\ UNCHANGED notSess

SessIdle ==
    /\ peer = <<>>
    /\ wire = <<>>
    /\ encErr = [side \in Sides |-> FALSE]
    /\ calls = [side \in Sides |-> 0]
    /\ decoded = <<>>
    /\ sent = [side \in Sides |-> <<>>]
    /\ failed = [side \in Sides |-> <<>>]

SessNext ==
    \/ \E p \in Protocols, a \in Secrets, b \in Secrets : Rekey(p, a, b)
    \/ \E side \in Sides, msg \in Msgs, rnd \in RandomTails :
          Encode(side, msg, rnd) /\ UNCHANGED <<sent, failed>>
    \/ DecodeStep
    \/ \E kind \in TamperKinds : DecodeForged(kind)

\* One session, every Encode call observed: the nonce of each emitted packet
\* is appended to sent.
NonceSide == "initiator"

NonceNext ==
    \/ \E msg \in Msgs, rnd \in RandomTails :
          /\ Encode(NonceSide, msg, rnd)
          /\ sent' = [sent EXCEPT ![NonceSide] =
                         Append(@, EncodeNonce(peer[NonceSide], rnd))]
          /\ UNCHANGED failed
    \/ /\ EncodeFail(NonceSide)
       /\ failed' = [failed EXCEPT ![NonceSide] =
                         Append(@, peer[NonceSide].nonceCounter)]
       /\ UNCHANGED sent

(***************************************************************************)
(* session/store.go and the establishment states of session/session.go     *)
(***************************************************************************)
SessionTimeout == 10

\* netip.Addr values: two IPv4 hosts. A6 is host A as the 16-byte net.IP a
\* packet's source address may hold; To4 in HandlePacket maps it back to A.
IPs == {"A", "B"}
SrcIPs == {"A", "B", "A6"}
AddrIPTo4(src) == IF src = "A6" THEN "A" ELSE src

NoHandler == "nil"
Handlers == {"deliver"}
StoreProtocol == "xfer"
\* The secrets the two ends draw: one value each, so that sessions of the two
\* hosts can carry the same ingress id.
StoreSecrets == {1}
NoObj == 0

Objs == 1..Len(sobj)
sessionKey(o) == <<sobj[o].ip, sobj[o].ingressID>>

\* &Session{ip: srcIP, heapIndex: -1, handler: h} followed by derive
MkSession(ip, initiatorSec, recipientSec, isRecipient, h) ==
    LET k == derive(StoreProtocol, initiatorSec, recipientSec, isRecipient)
    IN  [ip |-> ip, ingressID |-> k.ingressID, ingressKey |-> k.ingressKey,
         egressID |-> k.egressID, egressKey |-> k.egressKey,
         nonceCounter |-> CtrZero, handler |-> h,
         role |-> IF isRecipient THEN "recipient" ELSE "initiator"]

\* The ids a lookup can ask for: those of the sessions made so far and one
\* that no session has.
UnknownID == HKDF(<<ZeroSecret, ZeroSecret>>, <<>>, <<InfoPrefix, "none">>, 32, 40)
LookupIDs == {sobj[o].ingressID : o \in Objs} \cup {UnknownID}

(* prque.Prque over container/heap.  A queue state is [h, ix]: the heap's    *)
(* array (index i of the code is position i + 1) and heapIndex as the        *)
(* setIndex callback (Session.setIndex) keeps it.  prque orders by greatest   *)
(* priority first: Less(i, j) is priority[i] > priority[j], so Peek and Pop  *)
(* yield the entry with the greatest priority.                               *)
HeapLess(q, i, j) == q.h[i + 1].priority > q.h[j + 1].priority

HeapSwap(q, i, j) ==
    LET a == q.h[j + 1]
        b == q.h[i + 1]
    IN  [h |-> [q.h EXCEPT ![i + 1] = a, ![j + 1] = b],
         ix |-> [[q.ix EXCEPT ![a.value] = i] EXCEPT ![b.value] = j]]

RECURSIVE HeapUp(_, _)
HeapUp(q, j) ==
    IF j = 0 THEN q
    ELSE LET i == (j - 1) \div 2
         IN  IF ~HeapLess(q, j, i) THEN q
             ELSE HeapUp(HeapSwap(q, i, j), i)

\* down(i0, n): the queue after sifting, and whether the element moved
RECURSIVE HeapDown(_, _, _)
HeapDown(q, i, n) ==
    LET j1 == 2 * i + 1
    IN  IF j1 >= n THEN [q |-> q, moved |-> FALSE]
        ELSE LET j == IF j1 + 1 < n /\ HeapLess(q, j1 + 1, j1)
                      THEN j1 + 1 ELSE j1
             IN  IF ~HeapLess(q, j, i) THEN [q |-> q, moved |-> FALSE]
                 ELSE [q |-> HeapDown(HeapSwap(q, i, j), j, n).q,
                       moved |-> TRUE]

\* the stack's Pop: drop the last element of the array, setIndex(value, -1)
HeapDropLast(q) ==
    LET n == Len(q.h)
    IN  [h |-> SubSeq(q.h, 1, n - 1),
         ix |-> [q.ix EXCEPT ![q.h[n].value] = -1]]

\* st.exp.Push(s, priority)
QueuePush(q, o, priority) ==
    LET n == Len(q.h)
        q1 == [h |-> Append(q.h, [value |-> o, priority |-> priority]),
               ix |-> [q.ix EXCEPT ![o] = n]]
    IN  HeapUp(q1, n)

\* st.exp.Pop()
QueuePop(q) ==
    LET n == Len(q.h) - 1
    IN  HeapDropLast(HeapDown(HeapSwap(q, 0, n), 0, n).q)

\* st.exp.Remove(i)
QueueRemove(q, i) ==
    IF i < 0 \/ i >= Len(q.h) THEN q
    ELSE LET n == Len(q.h) - 1
             q1 == IF n = i THEN q
                   ELSE LET sw == HeapSwap(q, i, n)
                            d == HeapDown(sw, i, n)
                        IN  IF d.moved THEN d.q ELSE HeapUp(sw, i)
         IN  HeapDropLast(q1)

MapDelete(m, key) == [k \in DOMAIN m \ {key} |-> m[k]]
MapPut(m, key, o) == [k \in DOMAIN m \cup {key} |-> IF k = key THEN o ELSE m[k]]

\* Store.expire: while the head's priority is not after t, pop it and delete
\* the map entry under its session's key.  st is [h, ix, m].
RECURSIVE expire(_, _)
expire(st, t) ==
    IF st.h = <<>> \/ st.h[1].priority > t THEN st
    ELSE LET q == QueuePop([h |-> st.h, ix |-> st.ix])
         IN  expire([h |-> q.h, ix |-> q.ix,
                     m |-> MapDelete(st.m, sessionKey(st.h[1].value))], t)

\* The session a lookup of (srcIP, id) finds in map m, or NoObj
Lookup_AnyIP(m, srcIP, id) ==
    IF \E k \in DOMAIN m : k[2] = id
    THEN m[CHOOSE k \in DOMAIN m : k[2] = id]
    ELSE NoObj

Lookup(m, srcIP, id) ==
    IF <<srcIP, id>> \in DOMAIN m THEN m[<<srcIP, id>>] ELSE NoObj

\* Store.get without the renewal of the found session's expiry
get_NoRenew(srcIP, id) ==
    LET e == expire([h |-> exp, ix |-> heapIndex, m |-> sessions], now)
    IN  [st |-> e, s |-> Lookup(e.m, srcIP, id)]

\* Store.get: the state [h, ix, m] after it and the session found
get(srcIP, id) ==
    LET e == expire([h |-> exp, ix |-> heapIndex, m |-> sessions], now)
        s == Lookup(e.m, srcIP, id)
    IN  IF s = NoObj THEN [st |-> e, s |-> NoObj]
        ELSE LET q == QueuePush(QueueRemove([h |-> e.h, ix |-> e.ix], e.ix[s]),
                                s, now + SessionTimeout)
             IN  [st |-> [h |-> q.h, ix |-> q.ix, m |-> e.m], s |-> s]

\* Store.store on state [h, ix, m]: st.sessions[key] = s, then
\* st.exp.Push(s, now + sessionTimeout)
store(st, o, key) ==
    LET q == QueuePush([h |-> st.h, ix |-> st.ix], o, now + SessionTimeout)
    IN  [h |-> q.h, ix |-> q.ix, m |-> MapPut(st.m, key, o)]

StoreState == [h |-> exp, ix |-> heapIndex, m |-> sessions]

SetStoreState(st) ==
    /\ exp' = st.h
    /\ heapIndex' = st.ix
    /\ sessions' = st.m

StoreInit ==
    /\ sobj = <<>>
    /\ heapIndex = <<>>
    /\ sessions = <<>>
    /\ exp = <<>>
    /\ now = 0
    /\ istate = <<>>
    /\ crashed = FALSE
    /\ lastUse = <<>>
    /\ lastOp = <<>>

StoreIdle == StoreInit

\* Store.Recipient: a RecipientState with a new session, keys derived, no
\* handler, not stored
Recipient(srcIP, initiatorSecret, secret) ==
    /\ ~crashed
    /\ Len(sobj) < MaxSessions
    /\ sobj' = Append(sobj, MkSession(srcIP, initiatorSecret, secret, TRUE, NoHandler))
    /\ heapIndex' = Append(heapIndex, -1)
    /\ lastUse' = Append(lastUse, -1)
    /\ UNCHANGED <<sessions, exp, now, istate, crashed>>
    /\ lastOp' = <<>>
    /\ UNCHANGED notStore

\* RecipientState.SetHandler
RecipientSetHandler(o, h) ==
    /\ ~crashed
    /\ o \in Objs
    /\ sobj[o].role = "recipient"
    /\ sobj[o].handler # h
    /\ sobj' = [sobj EXCEPT ![o].handler = h]
    /\ UNCHANGED <<heapIndex, sessions, exp, now, istate, crashed, lastUse>>
    /\ lastOp' = <<>>
    /\ UNCHANGED notStore

\* RecipientState.Establish
RecipientEstablish(o) ==
    /\ ~crashed
    /\ o \in Objs
    /\ sobj[o].role = "recipient"
    /\ IF sobj[o].handler = NoHandler
       THEN /\ crashed' = TRUE
            /\ UNCHANGED <<sobj, heapIndex, sessions, exp, now, istate, lastUse>>
       ELSE /\ Len(exp) < MaxQueue
            /\ SetStoreState(store(StoreState, o, sessionKey(o)))
            /\ lastUse' = [lastUse EXCEPT ![o] = now]
            /\ UNCHANGED <<sobj, now, istate, crashed>>
    /\ lastOp' = <<>>
    /\ UNCHANGED notStore

\* Store.Initiator
Initiator(secret) ==
    /\ ~crashed
    /\ istate = <<>>
    /\ istate' = <<[secret |-> secret, handler |-> NoHandler]>>
    /\ UNCHANGED <<sobj, heapIndex, sessions, exp, now, crashed, lastUse>>
    /\ lastOp' = <<>>
    /\ UNCHANGED notStore

\* InitiatorState.SetHandler
InitiatorSetHandler(h) ==
    /\ ~crashed
    /\ istate # <<>>
    /\ istate[1].handler # h
    /\ istate' = <<[istate[1] EXCEPT !.handler = h]>>
    /\ UNCHANGED <<sobj, heapIndex, sessions, exp, now, crashed, lastUse>>
    /\ lastOp' = <<>>
    /\ UNCHANGED notStore

\* InitiatorState.Establish
InitiatorEstablish(srcIP, recipientSecret) ==
    /\ ~crashed
    /\ istate # <<>>
    /\ IF istate[1].handler = NoHandler
       THEN /\ crashed' = TRUE
            /\ UNCHANGED <<sobj, heapIndex, sessions, exp, now, istate, lastUse>>
       ELSE /\ Len(sobj) < MaxSessions
            /\ Len(exp) < MaxQueue
            /\ LET s == MkSession(srcIP, istate[1].secret, recipientSecret, FALSE,
                                  istate[1].handler)
                   o == Len(sobj) + 1
                   st == [h |-> exp, ix |-> Append(heapIndex, -1), m |-> sessions]
               IN  /\ sobj' = Append(sobj, s)
                   /\ SetStoreState(store(st, o, <<s.ip, s.ingressID>>))
                   /\ lastUse' = Append(lastUse, now)
            /\ istate' = <<[istate[1] EXCEPT !.secret = ZeroSecret]>>
            /\ UNCHANGED <<now, crashed>>
    /\ lastOp' = <<>>
    /\ UNCHANGED notStore

\* Store.SetSessionHandler
SetSessionHandler(o, h) ==
    /\ ~crashed
    /\ o \in Objs
    /\ sobj[o].handler # h
    /\ sobj' = [sobj EXCEPT ![o].handler = h]
    /\ UNCHANGED <<heapIndex, sessions, exp, now, istate, crashed, lastUse>>
    /\ lastOp' = <<>>
    /\ UNCHANGED notStore

\* The expiry times queue h holds for session o
Expiries(h, o) == {h[e].priority : e \in {x \in 1..Len(h) : h[x].value = o}}

\* The time the found session went unused before this lookup
IdleTime(s) == IF s = NoObj THEN 0 ELSE now - lastUse[s]

\* Store.Get.  lastOp keeps what the call was asked and what it did: the
\* session found, the session whose handler ran, the time it had gone unused.
Get(srcIP, id) ==
    /\ ~crashed
    /\ \E r \in {get(srcIP, id)} :
           /\ SetStoreState(r.st)
           /\ lastUse' = IF r.s = NoObj THEN lastUse
                         ELSE [lastUse EXCEPT ![r.s] = now]
           /\ lastOp' = <<[op |-> "Get", ip |-> srcIP, id |-> id, s |-> r.s,
                           invoked |-> NoObj, idle |-> IdleTime(r.s),
                           intact |-> TRUE, passed |-> <<>>,
                           renewed |-> /\ r.s # NoObj
                                       /\ Expiries(r.st.h, r.s) #
                                             Expiries(exp, r.s)]>>
    /\ UNCHANGED <<sobj, now, istate, crashed>>
    /\ UNCHANGED notStore

\* HandlePacket's test of the handler that get returned: the handler is
\* invoked, and the packet claimed, only if it is not nil
invokes_NilToo(s) == s # NoObj

invokes(s) == s # NoObj /\ sobj[s].handler # NoHandler

\* A packet as the socket hands it to HandlePacket: addressed to session o
\* (or to no session), n bytes long, sealed with the key the session opens
\* with, its tag intact or not
StorePacket(o, n, intact) ==
    LET id == IF o = NoObj THEN UnknownID ELSE sobj[o].ingressID
        key == IF o = NoObj THEN UnknownID ELSE sobj[o].ingressKey
        nonce == [ctr |-> CtrZero, rnd |-> 0]
    IN  [id |-> id, nonce |-> nonce, len |-> n,
         ct |-> [Seal(key, nonce, <<116>>, id) EXCEPT !.intact = intact]]

\* Store.HandlePacket, the handler being utpsession.deliver.  lastOp.intact
\* is false when the packet was matched to a session and its tag is bad.
HandlePacket(packet, src) ==
    /\ ~crashed
    /\ LET srcIP == AddrIPTo4(src)
       IN  IF packet.len < MinPacketLen
           THEN /\ lastOp' = <<[op |-> "HandlePacket", ip |-> srcIP, id |-> packet.id,
                                s |-> NoObj, invoked |-> NoObj, idle |-> 0,
                                intact |-> TRUE, passed |-> <<>>,
                                renewed |-> FALSE]>>
                /\ UNCHANGED <<heapIndex, sessions, exp, lastUse>>
           ELSE \E r \in {get(srcIP, packet.id)} :
                \E called \in {invokes(r.s)} :
                    /\ SetStoreState(r.st)
                    /\ lastUse' = IF r.s = NoObj THEN lastUse
                                  ELSE [lastUse EXCEPT ![r.s] = now]
                    /\ lastOp' = <<[op |-> "HandlePacket", ip |-> srcIP,
                                    id |-> packet.id, s |-> r.s,
                                    invoked |-> IF called THEN r.s ELSE NoObj,
                                    idle |-> IdleTime(r.s),
                                    intact |-> r.s = NoObj \/ packet.ct.intact,
                                    passed |-> IF called
                                               THEN deliver(sobj[r.s], packet)
                                               ELSE <<>>,
                                    renewed |->
                                       /\ r.s # NoObj
                                       /\ Expiries(r.st.h, r.s) #
                                             Expiries(exp, r.s)]>>
    /\ UNCHANGED <<sobj, now, istate, crashed>>
    /\ UNCHANGED notStore

\* The mock clock runs forward
ClockSteps == {5, 10}
Tick(d) ==
    /\ now + d <= MaxClock
    /\ now' = now + d
    /\ UNCHANGED <<sobj, heapIndex, sessions, exp, istate, crashed, lastUse>>
    /\ lastOp' = <<>>
    /\ UNCHANGED notStore

\* The packets the socket receives: too short, or long enough and then with
\* a tag that verifies or one that does not
PacketKinds == {<<MinPacketLen - 1, TRUE>>, <<MinPacketLen, TRUE>>,
                <<MinPacketLen, FALSE>>}
StorePackets ==
    {StorePacket(o, k[1], k[2]) : o \in Objs \cup {NoObj}, k \in PacketKinds}

StoreNext ==
    \/ \E ip \in IPs, a \in StoreSecrets, b \in StoreSecrets : Recipient(ip, a, b)
    \/ \E o \in Objs, h \in Handlers : RecipientSetHandler(o, h)
    \/ \E o \in Objs : RecipientEstablish(o)
    \/ \E a \in StoreSecrets : Initiator(a)
    \/ \E h \in Handlers : InitiatorSetHandler(h)
    \/ \E ip \in IPs, b \in StoreSecrets : InitiatorEstablish(ip, b)
    \/ \E o \in Objs, h \in Handlers \cup {NoHandler} : SetSessionHandler(o, h)
    \/ \E ip \in IPs, id \in LookupIDs : Get(ip, id)
    \/ \E src \in SrcIPs, packet \in StorePackets : HandlePacket(packet, src)
    \/ \E d \in ClockSteps : Tick(d)

(***************************************************************************)
(* sharedsocket/conn.go                                                    *)
(***************************************************************************)
HandlerIDs == {"h1", "h2", "h3"}
NoOutlet == 0
QueueCap == 100
Outlets == 1..Len(dcs)

EmptyList == [hs |-> <<>>, defaultConn |-> NoOutlet]

\* handlerList.append.  A list element is the handler and, as history, the
\* number of the AddHandler call that put it there.
append_Front(l, h, stamp) ==
    [hs |-> <<[h |-> h, stamp |-> stamp]>> \o l.hs, defaultConn |-> l.defaultConn]

append(l, h, stamp) ==
    [hs |-> Append(l.hs, [h |-> h, stamp |-> stamp]), defaultConn |-> l.defaultConn]

\* handlerList.removeIndex
removeIndex(l, i) ==
    [hs |-> SubSeq(l.hs, 1, i - 1) \o SubSeq(l.hs, i + 1, Len(l.hs)),
     defaultConn |-> l.defaultConn]

\* handlerList.remove: the first element whose handler is h
remove(l, h) ==
    IF \E i \in 1..Len(l.hs) : l.hs[i].h = h
    THEN removeIndex(l, CHOOSE i \in 1..Len(l.hs) :
                           /\ l.hs[i].h = h
                           /\ \A j \in 1..(i - 1) : l.hs[j].h # h)
    ELSE l

\* handlerList.setDefault
setDefault(l, dc) == [hs |-> l.hs, defaultConn |-> dc]

\* newDefaultConn
newDefaultConn == [in |-> <<>>, inClosed |-> FALSE, closed |-> FALSE]

\* defaultConn.getPacket's second result
getPacket_Closed(dc) == FALSE

getPacketOK(dc) == ~dc.closed

\* A send on a closed channel panics, which ends the program
Running == pump.pc # "panicked"

SockInit ==
    /\ hlist = EmptyList
    /\ nextStamp = 1
    /\ dcs = <<>>
    /\ dmutex = <<>>
    /\ cmutex = "free"
    /\ quit = "open"
    /\ sockClosed = FALSE
    /\ pump = [pc |-> "read", d |-> 0, l |-> EmptyList, i |-> 0]
    /\ closer = [pc |-> "idle", dcToClose |-> NoOutlet]
    /\ dcloser = [pc |-> "idle", dc |-> NoOutlet]
    /\ ndgram = 0
    /\ cur = [offered |-> <<>>, fate |-> "idle"]
    /\ slast = <<>>

SockIdle == SockInit

\* Conn.AddHandler
AddHandler(h) ==
    /\ Running
    /\ cmutex = "free"
    /\ nextStamp <= MaxAdds
    /\ hlist' = append(hlist, h, nextStamp)
    /\ nextStamp' = nextStamp + 1
    /\ UNCHANGED <<dcs, dmutex, cmutex, quit, sockClosed, pump, closer, dcloser,
                   ndgram, cur, slast>>
    /\ UNCHANGED notSock

\* Conn.RemoveHandler
RemoveHandler(h) ==
    /\ Running
    /\ cmutex = "free"
    /\ hlist' = remove(hlist, h)
    /\ UNCHANGED <<nextStamp, dcs, dmutex, cmutex, quit, sockClosed, pump, closer,
                   dcloser, ndgram, cur, slast>>
    /\ UNCHANGED notSock

\* Conn.DefaultConn
DefaultConn ==
    /\ Running
    /\ cmutex = "free"
    /\ hlist.defaultConn = NoOutlet
    /\ Len(dcs) < MaxOutlets
    /\ dcs' = Append(dcs, newDefaultConn)
    /\ dmutex' = Append(dmutex, "free")
    /\ hlist' = setDefault(hlist, Len(dcs) + 1)
    /\ UNCHANGED <<nextStamp, cmutex, quit, sockClosed, pump, closer, dcloser,
                   ndgram, cur, slast>>
    /\ UNCHANGED notSock

\* readLoop: a datagram arrives and the handler list is loaded
PumpRead ==
    /\ Running
    /\ pump.pc = "read"
    /\ ~sockClosed
    /\ ndgram < MaxDatagrams
    /\ ndgram' = ndgram + 1
    /\ pump' = [pc |-> IF hlist.hs = <<>> THEN "default" ELSE "offer",
                d |-> ndgram + 1, l |-> hlist, i |-> 1]
    /\ cur' = [offered |-> <<>>, fate |-> "pending"]
    /\ UNCHANGED <<hlist, nextStamp, dcs, dmutex, cmutex, quit, sockClosed, closer,
                   dcloser, slast>>
    /\ UNCHANGED notSock

\* readLoop: ReadFromUDP returns net.ErrClosed
PumpExit ==
    /\ Running
    /\ pump.pc = "read"
    /\ sockClosed
    /\ pump' = [pump EXCEPT !.pc = "exited"]
    /\ UNCHANGED <<hlist, nextStamp, dcs, dmutex, cmutex, quit, sockClosed, closer,
                   dcloser, ndgram, cur, slast>>
    /\ UNCHANGED notSock

\* readLoop, were it to go on to the next handler and to the outlet after a
\* handler returned true
PumpOffer_Fallthrough(res) ==
    /\ Running
    /\ pump.pc = "offer"
    /\ LET e == pump.l.hs[pump.i]
       IN  cur' = [offered |-> Append(cur.offered,
                                      [h |-> e.h, stamp |-> e.stamp, res |-> res]),
                   fate |-> IF res THEN "claimed" ELSE "pending"]
    /\ pump' = IF pump.i < Len(pump.l.hs) THEN [pump EXCEPT !.i = @ + 1]
               ELSE [pump EXCEPT !.pc = "default"]
    /\ UNCHANGED <<hlist, nextStamp, dcs, dmutex, cmutex, quit, sockClosed, closer,
                   dcloser, ndgram, slast>>
    /\ UNCHANGED notSock

\* readLoop: h.HandlePacket(packet, addr) returns res
PumpOffer(res) ==
    /\ Running
    /\ pump.pc = "offer"
    /\ LET e == pump.l.hs[pump.i]
       IN  cur' = [offered |-> Append(cur.offered,
                                      [h |-> e.h, stamp |-> e.stamp, res |-> res]),
                   fate |-> IF res THEN "claimed" ELSE "pending"]
    /\ pump' = IF res THEN [pump EXCEPT !.pc = "read"]
               ELSE IF pump.i < Len(pump.l.hs) THEN [pump EXCEPT !.i = @ + 1]
               ELSE [pump EXCEPT !.pc = "default"]
    /\ UNCHANGED <<hlist, nextStamp, dcs, dmutex, cmutex, quit, sockClosed, closer,
                   dcloser, ndgram, slast>>
    /\ UNCHANGED notSock

\* readLoop after the handlers: no outlet in the snapshot, or deliver up to
\* the result of getPacket
PumpDefault ==
    /\ Running
    /\ pump.pc = "default"
    /\ LET k == pump.l.defaultConn
       IN  IF k = NoOutlet
           THEN /\ pump' = [pump EXCEPT !.pc = "read"]
                /\ cur' = [cur EXCEPT !.fate = "nooutlet"]
           ELSE /\ dmutex[k] = "free"
                /\ IF getPacketOK(dcs[k])
                   THEN /\ pump' = [pump EXCEPT !.pc = "send"]
                        /\ cur' = cur
                   ELSE /\ pump' = [pump EXCEPT !.pc = "read"]
                        /\ cur' = [cur EXCEPT !.fate = "closed"]
    /\ UNCHANGED <<hlist, nextStamp, dcs, dmutex, cmutex, quit, sockClosed, closer,
                   dcloser, ndgram, slast>>
    /\ UNCHANGED notSock

\* deliver's select, case dc.in <- p
PumpSend ==
    /\ Running
    /\ pump.pc = "send"
    /\ LET k == pump.l.defaultConn
       IN  /\ ~dcs[k].inClosed
           /\ Len(dcs[k].in) < QueueCap
           /\ dcs' = [dcs EXCEPT ![k].in = Append(@, pump.d)]
    /\ pump' = [pump EXCEPT !.pc = "read"]
    /\ cur' = [cur EXCEPT !.fate = "queued"]
    /\ UNCHANGED <<hlist, nextStamp, dmutex, cmutex, quit, sockClosed, closer,
                   dcloser, ndgram, slast>>
    /\ UNCHANGED notSock

\* deliver's select, case dc.in <- p on a closed channel: the send panics
PumpSendPanic ==
    /\ Running
    /\ pump.pc = "send"
    /\ dcs[pump.l.defaultConn].inClosed
    /\ pump' = [pump EXCEPT !.pc = "panicked"]
    /\ cur' = [cur EXCEPT !.fate = "panic"]
    /\ UNCHANGED <<hlist, nextStamp, dcs, dmutex, cmutex, quit, sockClosed, closer,
                   dcloser, ndgram, slast>>
    /\ UNCHANGED notSock

\* deliver's select, case <-quit
PumpSendQuit ==
    /\ Running
    /\ pump.pc = "send"
    /\ quit = "closed"
    /\ pump' = [pump EXCEPT !.pc = "recycle"]
    /\ UNCHANGED <<hlist, nextStamp, dcs, dmutex, cmutex, quit, sockClosed, closer,
                   dcloser, ndgram, cur, slast>>
    /\ UNCHANGED notSock

\* dc.recyclePacket(p) after case <-quit
PumpRecycle ==
    /\ Running
    /\ pump.pc = "recycle"
    /\ dmutex[pump.l.defaultConn] = "free"
    /\ pump' = [pump EXCEPT !.pc = "read"]
    /\ cur' = [cur EXCEPT !.fate = "quit"]
    /\ UNCHANGED <<hlist, nextStamp, dcs, dmutex, cmutex, quit, sockClosed, closer,
                   dcloser, ndgram, slast>>
    /\ UNCHANGED notSock

\* defaultConn.Close, were it not to test dc.closed
dcClose_Unguarded(t, k) ==
    [dcs |-> [dcs EXCEPT ![k].inClosed = TRUE, ![k].closed = TRUE],
     dmutex |-> [dmutex EXCEPT ![k] = t], entered |-> TRUE]

\* defaultConn.Close by thread t on outlet k, up to the call of
\* unsetDefaultConn: [dcs, dmutex, entered], entered when dc was not closed
dcClose(t, k) ==
    IF dcs[k].closed
    THEN [dcs |-> dcs, dmutex |-> dmutex, entered |-> FALSE]
    ELSE [dcs |-> [dcs EXCEPT ![k].inClosed = TRUE, ![k].closed = TRUE],
          dmutex |-> [dmutex EXCEPT ![k] = t], entered |-> TRUE]

\* Conn.Close up to wg.Wait
ConnCloseBegin ==
    /\ Running
    /\ closer.pc = "idle"
    /\ cmutex = "free"
    /\ quit # "nil"
    /\ cmutex' = "closer"
    /\ closer' = [pc |-> "wait", dcToClose |-> hlist.defaultConn]
    /\ quit' = "closed"
    /\ sockClosed' = TRUE
    /\ UNCHANGED <<hlist, nextStamp, dcs, dmutex, pump, dcloser, ndgram, cur, slast>>
    /\ UNCHANGED notSock

\* Conn.Close: wg.Wait returns, c.quit = nil, the mutex is released
ConnCloseWait ==
    /\ Running
    /\ closer.pc = "wait"
    /\ pump.pc = "exited"
    /\ quit' = "nil"
    /\ cmutex' = "free"
    /\ closer' = [closer EXCEPT !.pc = IF closer.dcToClose = NoOutlet
                                       THEN "idle" ELSE "dcclose"]
    /\ UNCHANGED <<hlist, nextStamp, dcs, dmutex, sockClosed, pump, dcloser, ndgram,
                   cur, slast>>
    /\ UNCHANGED notSock

\* Conn.Close: the deferred dcToClose.Close()
ConnCloseOutlet ==
    /\ Running
    /\ closer.pc = "dcclose"
    /\ dmutex[closer.dcToClose] = "free"
    /\ LET r == dcClose("closer", closer.dcToClose)
       IN  /\ dcs' = r.dcs
           /\ dmutex' = r.dmutex
           /\ closer' = [closer EXCEPT !.pc = IF r.entered THEN "unset" ELSE "idle"]
    /\ UNCHANGED <<hlist, nextStamp, cmutex, quit, sockClosed, pump, dcloser, ndgram,
                   cur, slast>>
    /\ UNCHANGED notSock

\* Conn.unsetDefaultConn and the return of defaultConn.Close, in Conn.Close
ConnCloseUnset ==
    /\ Running
    /\ closer.pc = "unset"
    /\ cmutex = "free"
    /\ hlist' = setDefault(hlist, NoOutlet)
    /\ dmutex' = [dmutex EXCEPT ![closer.dcToClose] = "free"]
    /\ closer' = [closer EXCEPT !.pc = "idle"]
    /\ UNCHANGED <<nextStamp, dcs, cmutex, quit, sockClosed, pump, dcloser, ndgram,
                   cur, slast>>
    /\ UNCHANGED notSock

\* defaultConn.Close called by the application on outlet k
OutletClose(k) ==
    /\ Running
    /\ dcloser.pc = "idle"
    /\ dmutex[k] = "free"
    /\ LET r == dcClose("dcloser", k)
       IN  /\ r.entered
           /\ dcs' = r.dcs
           /\ dmutex' = r.dmutex
           /\ dcloser' = [pc |-> "unset", dc |-> k]
    /\ UNCHANGED <<hlist, nextStamp, cmutex, quit, sockClosed, pump, closer, ndgram,
                   cur, slast>>
    /\ UNCHANGED notSock

\* Conn.unsetDefaultConn and the return of defaultConn.Close
OutletCloseUnset ==
    /\ Running
    /\ dcloser.pc = "unset"
    /\ cmutex = "free"
    /\ hlist' = setDefault(hlist, NoOutlet)
    /\ dmutex' = [dmutex EXCEPT ![dcloser.dc] = "free"]
    /\ dcloser' = [dcloser EXCEPT !.pc = "idle"]
    /\ UNCHANGED <<nextStamp, dcs, cmutex, quit, sockClosed, pump, closer, ndgram,
                   cur, slast>>
    /\ UNCHANGED notSock

\* defaultConn.ReadFromUDP receiving a packet from dc.in
OutletRead(k) ==
    /\ Running
    /\ dcs[k].in # <<>>
    /\ dcs' = [dcs EXCEPT ![k].in = Tail(@)]
    /\ UNCHANGED <<hlist, nextStamp, dmutex, cmutex, quit, sockClosed, pump, closer,
                   dcloser, ndgram, cur, slast>>
    /\ UNCHANGED notSock

SockNext ==
    \/ \E h \in HandlerIDs : AddHandler(h)
    \/ \E h \in HandlerIDs : RemoveHandler(h)
    \/ DefaultConn
    \/ PumpRead
    \/ PumpExit
    \/ \E res \in BOOLEAN : PumpOffer(res)
    \/ PumpDefault
    \/ PumpSend
    \/ PumpSendPanic
    \/ PumpSendQuit
    \/ PumpRecycle
    \/ ConnCloseBegin
    \/ ConnCloseWait
    \/ ConnCloseOutlet
    \/ ConnCloseUnset
    \/ \E k \in Outlets : OutletClose(k)
    \/ OutletCloseUnset
    \/ \E k \in Outlets : OutletRead(k)

\* The rest of the section follows the calls an application makes on a Conn
\* without handlers and on its outlets, and records what each call returns.

\* readLoop's buf holds the datagram it received last.  Every packet made by
\* getPacket shares its bytes: the first is &packet{b, addr} with b = buf[:n],
\* a recycled one is refilled by append(p.b[:0], b...), which writes into the
\* same array.  Only the address is the packet's own.
bufContent == ndgram

\* A packet as the reader of dc.in finds it: entry d of the queue
packetRead_OwnBytes(d) == [payload |-> d, addr |-> d]

packetRead(d) == [payload |-> bufContent, addr |-> d]

\* Conn.DefaultConn: the registered outlet, or a new one
DefaultConnGet ==
    /\ Running
    /\ cmutex = "free"
    /\ IF hlist.defaultConn = NoOutlet
       THEN /\ Len(dcs) < MaxOutlets
            /\ dcs' = Append(dcs, newDefaultConn)
            /\ dmutex' = Append(dmutex, "free")
            /\ hlist' = setDefault(hlist, Len(dcs) + 1)
            /\ slast' = <<[op |-> "DefaultConn", k |-> Len(dcs) + 1]>>
       ELSE /\ slast' = <<[op |-> "DefaultConn", k |-> hlist.defaultConn]>>
            /\ UNCHANGED <<dcs, dmutex, hlist>>
    /\ UNCHANGED <<nextStamp, cmutex, quit, sockClosed, pump, closer, dcloser,
                   ndgram, cur>>
    /\ UNCHANGED notSock

\* Conn.Close: a call that finds c.quit nil returns nil; the first call goes
\* on to wg.Wait
ConnCloseCall ==
    /\ Running
    /\ closer.pc = "idle"
    /\ cmutex = "free"
    /\ IF quit = "nil"
       THEN /\ slast' = <<[op |-> "ConnClose", first |-> FALSE]>>
            /\ UNCHANGED <<cmutex, closer, quit, sockClosed>>
       ELSE /\ cmutex' = "closer"
            /\ closer' = [pc |-> "wait", dcToClose |-> hlist.defaultConn]
            /\ quit' = "closed"
            /\ sockClosed' = TRUE
            /\ slast' = <<[op |-> "ConnClose", first |-> TRUE]>>
    /\ UNCHANGED <<hlist, nextStamp, dcs, dmutex, pump, dcloser, ndgram, cur>>
    /\ UNCHANGED notSock

\* defaultConn.Close called by the application on outlet k: a call that
\* finds dc.closed returns at once
OutletCloseCall(k) ==
    /\ Running
    /\ dcloser.pc = "idle"
    /\ dmutex[k] = "free"
    /\ LET r == dcClose("dcloser", k)
       IN  /\ dcs' = r.dcs
           /\ dmutex' = r.dmutex
           /\ dcloser' = IF r.entered THEN [pc |-> "unset", dc |-> k] ELSE dcloser
           /\ slast' = <<[op |-> "OutletClose", k |-> k, entered |-> r.entered]>>
    /\ UNCHANGED <<hlist, nextStamp, cmutex, quit, sockClosed, pump, closer, ndgram,
                   cur>>
    /\ UNCHANGED notSock

\* defaultConn.ReadFromUDP on outlet k: the next packet of dc.in, or io.EOF
\* once the channel is closed and empty
OutletReadFrom(k) ==
    /\ Running
    /\ dcs[k].in # <<>> \/ dcs[k].inClosed
    /\ IF dcs[k].in # <<>>
       THEN /\ dcs' = [dcs EXCEPT ![k].in = Tail(@)]
            /\ slast' = <<[op |-> "Read", k |-> k, p |-> <<packetRead(Head(dcs[k].in))>>,
                           eof |-> FALSE]>>
       ELSE /\ dcs' = dcs
            /\ slast' = <<[op |-> "Read", k |-> k, p |-> <<>>, eof |-> TRUE]>>
    /\ UNCHANGED <<hlist, nextStamp, dmutex, cmutex, quit, sockClosed, pump, closer,
                   dcloser, ndgram, cur>>
    /\ UNCHANGED notSock

\* host.Listen on a new Conn: discovery is given conn.DefaultConn(), then
\* the session store is added as a handler.  readLoop runs from
\* sharedsocket.Listen on; discovery reads its conn, the outlet.
sessionStore == "h1"

ListenDefaultConn ==
    /\ hlist = EmptyList
    /\ dcs = <<>>
    /\ DefaultConn

ListenAddHandler ==
    /\ hlist.hs = <<>>
    /\ hlist.defaultConn # NoOutlet
    /\ AddHandler(sessionStore)

\* Host.Close: Discovery.Close(), which closes discovery's conn, and then
\* Socket.Close()
HostCloseDiscovery ==
    /\ hlist.hs # <<>>
    /\ ~dcs[1].closed
    /\ OutletCloseCall(1)

HostCloseSocket ==
    /\ dcs # <<>>
    /\ dcs[1].closed
    /\ dcloser.pc = "idle"
    /\ quit = "open"
    /\ ConnCloseCall

HostNext ==
    \/ ListenDefaultConn
    \/ ListenAddHandler
    \/ PumpRead
    \/ PumpExit
    \/ \E res \in BOOLEAN : PumpOffer(res)
    \/ PumpDefault
    \/ PumpSend
    \/ PumpSendPanic
    \/ PumpSendQuit
    \/ PumpRecycle
    \/ \E k \in Outlets : OutletReadFrom(k)
    \/ HostCloseDiscovery
    \/ OutletCloseUnset
    \/ HostCloseSocket
    \/ ConnCloseWait

\* What the pump and a caller inside Close do by themselves once they can
OutletSteps ==
    \/ PumpExit
    \/ PumpDefault
    \/ PumpSend
    \/ PumpSendPanic
    \/ PumpSendQuit
    \/ PumpRecycle
    \/ ConnCloseWait
    \/ ConnCloseOutlet
    \/ ConnCloseUnset
    \/ OutletCloseUnset

OutletFairness == WF_vars(OutletSteps)

OutletNext ==
    \/ DefaultConnGet
    \/ PumpRead
    \/ PumpExit
    \/ PumpDefault
    \/ PumpSend
    \/ PumpSendPanic
    \/ PumpSendQuit
    \/ PumpRecycle
    \/ ConnCloseCall
    \/ ConnCloseWait
    \/ ConnCloseOutlet
    \/ ConnCloseUnset
    \/ \E k \in Outlets : OutletCloseCall(k)
    \/ OutletCloseUnset
    \/ \E k \in Outlets : OutletReadFrom(k)

(***************************************************************************)
(* fileserver: Client (Request, loop, sendXferInit, handleXferStart) and   *)
(* Server (handleXferInit, runHandler, TransferRequest)                    *)
(***************************************************************************)
CallNames == {"init", "start1", "start2"}
StartRuns == {1, 2}
StartCall(j) == IF j = 1 THEN "start1" ELSE "start2"
FileSize == 2
NoErr == "nil"
NoChan == 0
NoTransfer == "nil"
TheTransfer == "t"
\* transferStartTimeout and the period of Client.loop's ticker are both 10 s,
\* the unit of the client's clock.  A clientTransfer's createTime starts as
\* the zero time.Time, ages before the time the client runs at.
transferStartTimeout == 1
ZeroTime == 0
XferEpoch == 2
MaxXferClock == 4
\* The handler's calls of TransferRequest.Accept
MaxAccepts == 2

\* A TALK call: the caller's side, the request's way, the response if any
NoCall == [caller |-> "none", req |-> "none", resp |-> <<>>]
SentCall == [caller |-> "waiting", req |-> "flight", resp |-> <<>>]

\* encodeXferStartResponse
encodeXferStartResponse(ok, recipientSecret) ==
    [OK |-> ok, RecipientSecret |-> recipientSecret]

\* A send on a channel of capacity 1 can proceed
HasRoom(ch) == Len(ch) < 1

XferInit ==
    /\ xreq = [pc |-> "idle", reader |-> <<>>, err |-> NoErr]
    /\ xloop = [pc |-> "select", ch |-> NoChan, val |-> NoTransfer]
    /\ xtab = FALSE
    /\ xt = [err |-> NoErr, acceptStart |-> NoChan, session |-> FALSE,
           createTime |-> ZeroTime]
    /\ xstarted = <<>>
    /\ xaccept = [j \in StartRuns |-> <<>>]
    /\ xhs = [j \in StartRuns |-> [pc |-> "none", transfer |-> NoTransfer,
                                   resp |-> <<>>]]
    /\ xcall = [n \in CallNames |-> NoCall]
    /\ xsrv = [init |-> "none", acceptInit |-> <<>>, acceptInitNil |-> FALSE,
               handler |-> "none", err |-> NoErr, session |-> FALSE,
               connected |-> FALSE, accepts |-> 0, acceptRet |-> "none",
               deliver |-> "none"]
    /\ xquit = FALSE
    /\ xclk = [now |-> XferEpoch, due |-> FALSE, created |-> XferEpoch]

XferIdle == XferInit

\* What Client.loop's event handlers work on
LoopState == [tab |-> xtab, t |-> xt, accept |-> xaccept, loop |-> xloop]

SetLoopState(st) ==
    /\ xtab' = st.tab
    /\ xt' = st.t
    /\ xaccept' = st.accept
    /\ xloop' = st.loop

\* Client.loop executes t.acceptStart <- val on accept channel j: the send
\* goes through if the channel has room, else the loop stays in it
SendAccept(st, j, val) ==
    IF HasRoom(st.accept[j])
    THEN [st EXCEPT !.accept[j] = Append(@, val)]
    ELSE [st EXCEPT !.loop = [pc |-> "sendAccept", ch |-> j, val |-> val]]

\* Client.loop, case create
onCreate(st) ==
    [st EXCEPT !.tab = TRUE,
               !.t = [err |-> NoErr, acceptStart |-> NoChan, session |-> FALSE,
           createTime |-> ZeroTime]]

\* Client.loop, case init
onInit(st, ok) ==
    IF ~st.tab THEN st
    ELSE IF ~ok THEN [st EXCEPT !.t.err = "errRejectedByServer", !.tab = FALSE]
    ELSE IF st.t.acceptStart # NoChan
         THEN SendAccept(st, st.t.acceptStart, TheTransfer)
         ELSE st

\* Client.loop, case start, were it to leave the accept signal to case init
onStart_NoSend(st, j) ==
    IF ~st.tab THEN st ELSE [st EXCEPT !.t.acceptStart = j]

\* Client.loop, case start, for the accept channel of start handler j
onStart(st, j) ==
    IF ~st.tab THEN st
    ELSE LET st1 == [st EXCEPT !.t.acceptStart = j]
         IN  IF st1.t.err = NoErr THEN SendAccept(st1, j, TheTransfer) ELSE st1

\* Client.loop, case <-ticker.C, when time.Now() is tnow
onTicker(st, tnow) ==
    IF st.tab /\ st.t.createTime + transferStartTimeout > tnow
    THEN [st EXCEPT !.t.err = "errTransferHandshakeTimeout", !.tab = FALSE]
    ELSE st

\* Client.Request: the create event is taken by the loop
RequestCreate ==
    /\ xreq.pc = "idle"
    /\ xloop.pc = "select"
    /\ SetLoopState(onCreate(LoopState))
    /\ xreq' = [xreq EXCEPT !.pc = "sendInit"]
    /\ xclk' = [xclk EXCEPT !.created = xclk.now]
    /\ UNCHANGED <<xstarted, xhs, xcall, xsrv, xquit>>
    /\ UNCHANGED notXfer

\* Client.Request: clientEvent sees quit closed, errClientClosed
RequestClosed ==
    /\ xreq.pc = "idle"
    /\ xquit
    /\ xreq' = [pc |-> "returned", reader |-> <<>>, err |-> "errClientClosed"]
    /\ UNCHANGED <<xloop, xtab, xt, xstarted, xaccept, xhs, xcall, xsrv, xquit, xclk>>
    /\ UNCHANGED notXfer

\* Client.sendXferInit: the TALK request goes out
RequestSendInit ==
    /\ xreq.pc = "sendInit"
    /\ xcall' = [xcall EXCEPT !.init = SentCall]
    /\ xreq' = [xreq EXCEPT !.pc = "initCall"]
    /\ UNCHANGED <<xloop, xtab, xt, xstarted, xaccept, xhs, xsrv, xquit, xclk>>
    /\ UNCHANGED notXfer

\* Client.sendXferInit: TalkRequest returns the response
InitResponse ==
    /\ xreq.pc = "initCall"
    /\ xcall.init.caller = "waiting"
    /\ xcall.init.resp # <<>>
    /\ xcall' = [xcall EXCEPT !.init.caller = "got"]
    /\ xreq' = [xreq EXCEPT !.pc = "initEvent"]
    /\ UNCHANGED <<xloop, xtab, xt, xstarted, xaccept, xhs, xsrv, xquit, xclk>>
    /\ UNCHANGED notXfer

\* Client.sendXferInit: TalkRequest returns an error; Request goes on to
\* clientEvent(c, c.cancel, ...)
InitCallFails ==
    /\ xreq.pc = "initCall"
    /\ xcall.init.caller = "waiting"
    /\ xcall' = [xcall EXCEPT !.init.caller = "failed"]
    /\ xreq' = [xreq EXCEPT !.pc = "cancel", !.err = "talk error"]
    /\ UNCHANGED <<xloop, xtab, xt, xstarted, xaccept, xhs, xsrv, xquit, xclk>>
    /\ UNCHANGED notXfer

\* Client.sendXferInit: c.init <- ev is taken by the loop; then Request waits
\* for started, or goes on to cancel when the response said no
InitEvent ==
    /\ xreq.pc = "initEvent"
    /\ xloop.pc = "select"
    /\ LET ok == xcall.init.resp[1].OK
       IN  /\ SetLoopState(onInit(LoopState, ok))
           /\ xreq' = IF ok THEN [xreq EXCEPT !.pc = "wait"]
                      ELSE [xreq EXCEPT !.pc = "cancel",
                                        !.err = "server rejected transfer"]
    /\ UNCHANGED <<xstarted, xhs, xcall, xsrv, xquit, xclk>>
    /\ UNCHANGED notXfer

\* Client.Request: case t := <-create.started
RequestStarted ==
    /\ xreq.pc = "wait"
    /\ xstarted # <<>>
    /\ xstarted' = Tail(xstarted)
    /\ xreq' = [pc |-> "returned", reader |-> <<>>, err |-> xt.err]
    /\ UNCHANGED <<xloop, xtab, xt, xaccept, xhs, xcall, xsrv, xquit, xclk>>
    /\ UNCHANGED notXfer

\* Client.Request: case <-ctx.Done()
RequestCtxDone ==
    /\ xreq.pc = "wait"
    /\ xreq' = [xreq EXCEPT !.pc = "cancel", !.err = "context"]
    /\ UNCHANGED <<xloop, xtab, xt, xstarted, xaccept, xhs, xcall, xsrv, xquit, xclk>>
    /\ UNCHANGED notXfer

\* Client.Request: clientEvent(c, c.cancel, ...).  NewClient makes no cancel
\* channel, so the send never proceeds and the call ends when quit is closed.
RequestCancelReturn ==
    /\ xreq.pc = "cancel"
    /\ xquit
    /\ xreq' = [xreq EXCEPT !.pc = "returned"]
    /\ UNCHANGED <<xloop, xtab, xt, xstarted, xaccept, xhs, xcall, xsrv, xquit, xclk>>
    /\ UNCHANGED notXfer

\* Client.loop: the send it was blocked in goes through
LoopUnblock ==
    /\ xloop.pc = "sendAccept"
    /\ HasRoom(xaccept[xloop.ch])
    /\ xaccept' = [xaccept EXCEPT ![xloop.ch] = Append(@, xloop.val)]
    /\ xloop' = [pc |-> "select", ch |-> NoChan, val |-> NoTransfer]
    /\ UNCHANGED <<xreq, xtab, xt, xstarted, xhs, xcall, xsrv, xquit, xclk>>
    /\ UNCHANGED notXfer

\* Ten seconds pass; the ticker leaves a tick in ticker.C, which holds one
XferTick ==
    /\ xclk.now < MaxXferClock
    /\ xclk' = [xclk EXCEPT !.now = @ + 1, !.due = TRUE]
    /\ UNCHANGED <<xreq, xloop, xtab, xt, xstarted, xaccept, xhs, xcall, xsrv, xquit>>
    /\ UNCHANGED notXfer

\* Client.loop, case <-ticker.C
LoopTicker ==
    /\ xloop.pc = "select"
    /\ xclk.due
    /\ SetLoopState(onTicker(LoopState, xclk.now))
    /\ xclk' = [xclk EXCEPT !.due = FALSE]
    /\ UNCHANGED <<xreq, xstarted, xhs, xcall, xsrv, xquit>>
    /\ UNCHANGED notXfer

\* Client.loop, case <-c.quit
LoopQuit ==
    /\ xloop.pc = "select"
    /\ xquit
    /\ xloop' = [xloop EXCEPT !.pc = "exited"]
    /\ UNCHANGED <<xreq, xtab, xt, xstarted, xaccept, xhs, xcall, xsrv, xquit, xclk>>
    /\ UNCHANGED notXfer

\* Client.Close: close(c.quit)
ClientClose ==
    /\ ~xquit
    /\ xquit' = TRUE
    /\ UNCHANGED <<xreq, xloop, xtab, xt, xstarted, xaccept, xhs, xcall, xsrv, xclk>>
    /\ UNCHANGED notXfer

\* Client.handleXferStart, run j: the xfer-start request arrives
StartDelivered(j) ==
    /\ xcall[StartCall(j)].req = "flight"
    /\ xcall' = [xcall EXCEPT ![StartCall(j)].req = "delivered"]
    /\ xhs' = [xhs EXCEPT ![j].pc = "sendStart"]
    /\ UNCHANGED <<xreq, xloop, xtab, xt, xstarted, xaccept, xsrv, xquit, xclk>>
    /\ UNCHANGED notXfer

\* Client.handleXferStart: c.start <- clientStartEv is taken by the loop
StartEvent(j) ==
    /\ xhs[j].pc = "sendStart"
    /\ xloop.pc = "select"
    /\ SetLoopState(onStart(LoopState, j))
    /\ xhs' = [xhs EXCEPT ![j].pc = "waitAccept"]
    /\ UNCHANGED <<xreq, xstarted, xcall, xsrv, xquit, xclk>>
    /\ UNCHANGED notXfer

\* Client.handleXferStart: case transfer = <-accept.  A nil transfer is
\* answered with ok=false.  Else SessionStore.Recipient is called: when it
\* succeeds (made) the session is set and the response is ok=true, when it
\* fails transfer.err is set and the response is ok=false; either way the
\* deferred relay follows.
StartAccepted(j, made) ==
    /\ xhs[j].pc = "waitAccept"
    /\ xaccept[j] # <<>>
    /\ xaccept' = [xaccept EXCEPT ![j] = Tail(@)]
    /\ IF Head(xaccept[j]) = NoTransfer
       THEN /\ xhs' = [xhs EXCEPT ![j].pc = "done"]
            /\ xcall' = [xcall EXCEPT ![StartCall(j)].resp =
                            <<encodeXferStartResponse(FALSE, ZeroSecret)>>]
            /\ xt' = xt
       ELSE /\ xhs' = [xhs EXCEPT ![j] =
                          [pc |-> "relay", transfer |-> Head(xaccept[j]),
                           resp |-> IF made
                                    THEN <<encodeXferStartResponse(TRUE, 1)>>
                                    ELSE <<encodeXferStartResponse(FALSE, ZeroSecret)>>]]
            /\ xt' = IF made THEN [xt EXCEPT !.session = TRUE]
                     ELSE [xt EXCEPT !.err = "session establishment failed"]
            /\ xcall' = xcall
    /\ UNCHANGED <<xreq, xloop, xtab, xstarted, xsrv, xquit, xclk>>
    /\ UNCHANGED notXfer

\* Client.handleXferStart: case <-timeoutTimer.C, answered with ok=false.
\* The timer runs 400 ms from the handler's start; a transfer already in the
\* accept channel is received long before that.
StartTimeout(j) ==
    /\ xhs[j].pc = "waitAccept"
    /\ xaccept[j] = <<>>
    /\ xhs' = [xhs EXCEPT ![j].pc = "done"]
    /\ xcall' = [xcall EXCEPT ![StartCall(j)].resp =
                    <<encodeXferStartResponse(FALSE, ZeroSecret)>>]
    /\ UNCHANGED <<xreq, xloop, xtab, xt, xstarted, xaccept, xsrv, xquit, xclk>>
    /\ UNCHANGED notXfer

\* Client.handleXferStart: the deferred transfer.started <- transfer, after
\* which the handler returns its response
StartRelay(j) ==
    /\ xhs[j].pc = "relay"
    /\ HasRoom(xstarted)
    /\ xstarted' = Append(xstarted, xhs[j].transfer)
    /\ xhs' = [xhs EXCEPT ![j].pc = "done"]
    /\ xcall' = [xcall EXCEPT ![StartCall(j)].resp = xhs[j].resp]
    /\ UNCHANGED <<xreq, xloop, xtab, xt, xaccept, xsrv, xquit, xclk>>
    /\ UNCHANGED notXfer

\* Server.handleXferInit: the request arrives, the handler goroutine starts
InitDelivered ==
    /\ xcall.init.req = "flight"
    /\ xcall' = [xcall EXCEPT !.init.req = "delivered"]
    /\ xsrv' = [xsrv EXCEPT !.init = "waitAccept", !.handler = "run"]
    /\ UNCHANGED <<xreq, xloop, xtab, xt, xstarted, xaccept, xhs, xquit, xclk>>
    /\ UNCHANGED notXfer

\* The peer is a server that answers the xfer-init request with
\* xferInitResponse{OK: false}
InitRejected ==
    /\ xcall.init.req = "flight"
    /\ xcall' = [xcall EXCEPT !.init.req = "delivered", !.init.resp = <<[OK |-> FALSE]>>]
    /\ UNCHANGED <<xreq, xloop, xtab, xt, xstarted, xaccept, xhs, xsrv, xquit, xclk>>
    /\ UNCHANGED notXfer

\* Server.handleXferInit: ok := <-accept, the response is returned
InitRespond ==
    /\ xsrv.init = "waitAccept"
    /\ xsrv.acceptInit # <<>>
    /\ xcall' = [xcall EXCEPT !.init.resp = <<[OK |-> Head(xsrv.acceptInit)]>>]
    /\ xsrv' = [xsrv EXCEPT !.init = "done", !.acceptInit = Tail(@)]
    /\ UNCHANGED <<xreq, xloop, xtab, xt, xstarted, xaccept, xhs, xquit, xclk>>
    /\ UNCHANGED notXfer

\* The ServerFunc returns without going on (an error, or nothing to send)
HandlerReturn ==
    /\ xsrv.handler \in {"run", "accepted"}
    /\ xsrv' = [xsrv EXCEPT !.handler = "finished", !.err = "handler"]
    /\ UNCHANGED <<xreq, xloop, xtab, xt, xstarted, xaccept, xhs, xcall, xquit, xclk>>
    /\ UNCHANGED notXfer

\* TransferRequest.Accept, were it to send its decision on every call
HandlerAccept_Resend ==
    /\ xsrv.handler \in {"run", "accepted"}
    /\ xsrv.accepts < MaxAccepts
    /\ HasRoom(xsrv.acceptInit)
    /\ xsrv' = [xsrv EXCEPT !.acceptInit = Append(@, TRUE),
                            !.acceptInitNil = TRUE, !.handler = "accepted",
                            !.accepts = @ + 1, !.acceptRet = NoErr]
    /\ UNCHANGED <<xreq, xloop, xtab, xt, xstarted, xaccept, xhs, xcall, xquit, xclk>>
    /\ UNCHANGED notXfer

\* TransferRequest.Accept: the first call sends true on acceptInit (capacity
\* 1, nothing sent before) and sets the field to nil; a call that finds it
\* nil returns errAlreadyAccepted
HandlerAccept ==
    /\ xsrv.handler \in {"run", "accepted"}
    /\ xsrv.accepts < MaxAccepts
    /\ xsrv' = IF xsrv.acceptInitNil
               THEN [xsrv EXCEPT !.accepts = @ + 1,
                                 !.acceptRet = "errAlreadyAccepted"]
               ELSE [xsrv EXCEPT !.acceptInit = Append(@, TRUE),
                                 !.acceptInitNil = TRUE, !.handler = "accepted",
                                 !.accepts = @ + 1, !.acceptRet = NoErr]
    /\ UNCHANGED <<xreq, xloop, xtab, xt, xstarted, xaccept, xhs, xcall, xquit, xclk>>
    /\ UNCHANGED notXfer

\* TransferRequest.SendFile.  Before Accept it returns errNotAccepted; after
\* Accept startSession sends the first xfer-start request.
HandlerSendFile ==
    /\ xsrv.handler \in {"run", "accepted"}
    /\ IF ~xsrv.acceptInitNil
       THEN /\ xsrv' = [xsrv EXCEPT !.handler = "finished", !.err = "errNotAccepted"]
            /\ xcall' = xcall
       ELSE /\ xsrv' = [xsrv EXCEPT !.handler = "start1"]
            /\ xcall' = [xcall EXCEPT !.start1 = SentCall]
    /\ UNCHANGED <<xreq, xloop, xtab, xt, xstarted, xaccept, xhs, xquit, xclk>>
    /\ UNCHANGED notXfer

\* Server.sendXferStart, were it to take any response for an acceptance
StartResponse_IgnoresOK(j) ==
    /\ xsrv.handler = StartCall(j)
    /\ xcall[StartCall(j)].caller = "waiting"
    /\ xcall[StartCall(j)].resp # <<>>
    /\ xcall' = [xcall EXCEPT ![StartCall(j)].caller = "got"]
    /\ xsrv' = [xsrv EXCEPT !.handler = "established", !.session = TRUE]
    /\ UNCHANGED <<xreq, xloop, xtab, xt, xstarted, xaccept, xhs, xquit, xclk>>
    /\ UNCHANGED notXfer

\* Server.sendXferStart: try j returns a response.  ok=false is errCanceled;
\* else startSession goes on to newSession, SetHandler and Establish.
StartResponse(j) ==
    /\ xsrv.handler = StartCall(j)
    /\ xcall[StartCall(j)].caller = "waiting"
    /\ xcall[StartCall(j)].resp # <<>>
    /\ xcall' = [xcall EXCEPT ![StartCall(j)].caller = "got"]
    /\ xsrv' = IF xcall[StartCall(j)].resp[1].OK
               THEN [xsrv EXCEPT !.handler = "established", !.session = TRUE]
               ELSE [xsrv EXCEPT !.handler = "finished", !.err = "errCanceled"]
    /\ UNCHANGED <<xreq, xloop, xtab, xt, xstarted, xaccept, xhs, xquit, xclk>>
    /\ UNCHANGED notXfer

\* Server.sendXferStart: try j returns an error.  The first is followed by
\* the second try, the second fails SendFile.
StartCallFails(j) ==
    /\ xsrv.handler = StartCall(j)
    /\ xcall[StartCall(j)].caller = "waiting"
    /\ IF j = 1
       THEN /\ xcall' = [xcall EXCEPT !.start1.caller = "failed", !.start2 = SentCall]
            /\ xsrv' = [xsrv EXCEPT !.handler = "start2"]
       ELSE /\ xcall' = [xcall EXCEPT !.start2.caller = "failed"]
            /\ xsrv' = [xsrv EXCEPT !.handler = "finished", !.err = "talk error"]
    /\ UNCHANGED <<xreq, xloop, xtab, xt, xstarted, xaccept, xhs, xquit, xclk>>
    /\ UNCHANGED notXfer

\* TransferRequest.startSession: w.connect(session, r.Addr); SendFile goes on
\* to io.CopyN(w, reader, size)
ServerConnect ==
    /\ xsrv.handler = "established"
    /\ xsrv' = [xsrv EXCEPT !.handler = "copy", !.connected = TRUE]
    /\ UNCHANGED <<xreq, xloop, xtab, xt, xstarted, xaccept, xhs, xcall, xquit, xclk>>
    /\ UNCHANGED notXfer

\* readLoop -> Store.HandlePacket -> utpsession.deliver on the server: a
\* packet with the source IP and ingress id of the stored session, its tag
\* intact or not.  s.Decode uses the Session the store passes in; r.conn is
\* nil until connect, and PacketIn on it ends the program.  xsrv.deliver
\* keeps how the last call ended.
ServerPacketIn(intact) ==
    /\ xsrv.session
    /\ xsrv.deliver # "panic"
    /\ LET end == IF ~intact THEN IF xsrv.connected THEN "decode error"
                                 ELSE "decode error, no conn"
                  ELSE IF xsrv.connected THEN "PacketIn" ELSE "panic"
       IN  /\ end # xsrv.deliver
           /\ xsrv' = [xsrv EXCEPT !.deliver = end]
    /\ UNCHANGED <<xreq, xloop, xtab, xt, xstarted, xaccept, xhs, xcall, xquit, xclk>>
    /\ UNCHANGED notXfer

XferNext ==
    \/ RequestCreate
    \/ RequestClosed
    \/ RequestSendInit
    \/ InitResponse
    \/ InitCallFails
    \/ InitEvent
    \/ RequestStarted
    \/ RequestCtxDone
    \/ RequestCancelReturn
    \/ LoopUnblock
    \/ LoopQuit
    \/ XferTick
    \/ LoopTicker
    \/ ClientClose
    \/ \E j \in StartRuns : StartDelivered(j)
    \/ \E j \in StartRuns : StartEvent(j)
    \/ \E j \in StartRuns, made \in BOOLEAN : StartAccepted(j, made)
    \/ \E j \in StartRuns : StartTimeout(j)
    \/ \E j \in StartRuns : StartRelay(j)
    \/ InitDelivered
    \/ InitRejected
    \/ InitRespond
    \/ HandlerReturn
    \/ HandlerAccept
    \/ HandlerSendFile
    \/ \E j \in StartRuns : StartResponse(j)
    \/ \E j \in StartRuns : StartCallFails(j)
    \/ ServerConnect

\* The steps the goroutines take by themselves once they can, and the
\* deliveries of a TALK exchange that loses nothing.  Closing the client,
\* cancelling the context and failing TALK calls are left to the environment.
XferSteps ==
    \/ RequestSendInit
    \/ InitResponse
    \/ InitEvent
    \/ RequestStarted
    \/ RequestCancelReturn
    \/ LoopUnblock
    \/ LoopQuit
    \/ LoopTicker
    \/ \E j \in StartRuns : StartDelivered(j)
    \/ \E j \in StartRuns : StartEvent(j)
    \/ \E j \in StartRuns, made \in BOOLEAN : StartAccepted(j, made)
    \/ \E j \in StartRuns : StartTimeout(j)
    \/ \E j \in StartRuns : StartRelay(j)
    \/ InitDelivered
    \/ InitRespond
    \/ HandlerReturn
    \/ HandlerAccept
    \/ HandlerSendFile
    \/ \E j \in StartRuns : StartResponse(j)
    \/ ServerConnect

XferFairness == WF_vars(XferSteps)

(***************************************************************************)
(* utpconn/ and fileserver/utpsession.go: one stream. The sender is the    *)
(* utpsession of TransferRequest.SendFile, the receiver the utpsession at  *)
(* the other end; each runs a utpconn.Conn over its side of one Session.   *)
(* utpconn's Conn is described in section 4.D of the specification; its    *)
(* send records, seqLess and the utpsession glue are those of the source.  *)
(***************************************************************************)
\* part_000: maxUnackedSends and maxUnackedInbound are 256, maxPayloadSize is
\* 1384 bytes; the model runs the same rules over smaller windows
maxUnackedSends == 2
maxUnackedInbound == 2
maxPayloadSize == 1
\* conn.config.writeTimeout and conn.resendTimeout(), in units of the latter
\* (15 s and 400 ms by default)
writeTimeout == 4
resendTimeout == 1
MaxBytes == 2       \* bytes handed to SendFile
MaxInFlight == 2    \* datagrams the network holds at once

SeqMod == 65536
SeqHalf == 32768
\* The stream's first sequence number: far from the wrap of the 16-bit
\* counter, or right before it
InitSeqs == {1, SeqMod - 1}

Min(a, b) == IF a < b THEN a ELSE b

\* SendFile's input: the first n bytes of one file of distinct bytes
Payloads == {[i \in 1..n |-> i] : n \in 0..MaxBytes}

IsPrefix(p, q) == Len(p) <= Len(q) /\ p = SubSeq(q, 1, Len(p))

\* b-0x8000 on uint16: the difference wraps around
sub16_NoWrap(b, h) == b - h

sub16(b, h) == (b + SeqMod - h) % SeqMod

\* seqLess on uint16
seqLess_NoWrap(a, b) == a < b

seqLess(a, b) ==
    IF b < SeqHalf
    THEN a < b \/ a >= sub16(b, SeqHalf)
    ELSE a < b /\ a >= sub16(b, SeqHalf)

\* The sequence numbers compared: those within SeqSpread of the ends and of
\* the middle of the uint16 range
SeqSpread == 2
SeqInputs ==
    {x \in 0..(SeqMod - 1) :
        \/ x <= SeqSpread
        \/ x >= SeqMod - SeqSpread
        \/ (x >= SeqHalf - SeqSpread /\ x <= SeqHalf + SeqSpread)}

SeqInit ==
    sq \in {[a |-> a, b |-> b, pc |-> "call", less |-> FALSE, rev |-> FALSE] :
               a \in SeqInputs, b \in SeqInputs}

SeqIdle == sq = <<>>

\* One call of seqLess(a, b) and one of seqLess(b, a)
SeqCompare ==
    /\ sq.pc = "call"
    /\ sq' = [sq EXCEPT !.pc = "done", !.less = seqLess(sq.a, sq.b),
                        !.rev = seqLess(sq.b, sq.a)]
    /\ UNCHANGED notSeq

SeqNext == SeqCompare

\* A uTP packet: its header fields and its payload
Hdr(type, seq, ack, sack, payload) ==
    [type |-> type, seq_nr |-> seq, ack_nr |-> ack, sack |-> sack,
     payload |-> payload]

\* The Session of each end: SendFile's end is the initiator (startSession)
StreamSession(isRecipient) == NewSession("xfer", 1, 2, isRecipient, CtrZero)

\* utpsession.packetOut: the datagram written to the socket. The nonce takes
\* no part in the transport; every datagram here carries the first one.
packetOut(s, b) == EncodePacket(s, <<b>>, 0)

\* The network takes the datagrams of an end unless it is full
Transmit(n, to, hdrs) ==
    LET s == StreamSession(to = "sender")
        new == {[to |-> to, pkt |-> packetOut(s, h)] : h \in hdrs}
    IN  IF Cardinality(n \cup new) <= MaxInFlight THEN n \cup new ELSE n

\* A send record as conn.write leaves it: the resend timer armed, since the
\* time.Since(started) at which the timer will fire
NewSend(type, seq, payload) ==
    [type |-> type, seqNr |-> seq, payload |-> payload, acked |-> FALSE,
     numResends |-> 0, timer |-> TRUE, since |-> resendTimeout]

\* send.Ack
Ack(s) == [s EXCEPT !.acked = TRUE, !.payload = <<>>, !.timer = FALSE]

\* send.resend: what conn.send emits
resend(s) ==
    IF s.acked THEN {}
    ELSE {Hdr(s.type, s.seqNr, 0, {}, s.payload)}

\* send.timeoutResend, run by the resend timer: the record, the packets
\* emitted, and whether send.timedOut destroyed the connection
timeoutResend_NoRearm(s, destroyed) ==
    IF s.since >= writeTimeout
    THEN [s |-> [s EXCEPT !.timer = FALSE], out |-> {}, timedOut |-> TRUE]
    ELSE IF s.acked \/ destroyed
    THEN [s |-> [s EXCEPT !.timer = FALSE], out |-> {}, timedOut |-> FALSE]
    ELSE [s |-> [s EXCEPT !.numResends = @ + 1, !.timer = FALSE],
          out |-> resend(s), timedOut |-> FALSE]

timeoutResend(s, destroyed) ==
    IF s.since >= writeTimeout
    THEN [s |-> [s EXCEPT !.timer = FALSE], out |-> {}, timedOut |-> TRUE]
    ELSE IF s.acked \/ destroyed
    THEN [s |-> [s EXCEPT !.timer = FALSE], out |-> {}, timedOut |-> FALSE]
    ELSE [s |-> [s EXCEPT !.numResends = @ + 1,
                          !.since = @ + resendTimeout * (s.numResends + 1)],
          out |-> resend(s), timedOut |-> FALSE]

\* A STATE packet acknowledges seq
Acks(h, seq) ==
    \/ seq = h.ack_nr
    \/ seqLess(seq, h.ack_nr)
    \/ seq \in h.sack

\* conn.destroy: pending operations fail. The timers of the sends return at
\* once from then on (timeoutResend's tests), so the sends are let go.
destroy(c) == [c EXCEPT !.state = "destroyed", !.unacked = <<>>]

\* ErrTimeout, and the errors.As tests on an error value (<<>> is nil)
ErrTimeout(isAck) == [type |-> "ErrTimeout", IsAck |-> isAck, Msg |-> ""]

IsTimeout(err) == err # <<>> /\ err[1].type = "ErrTimeout"

IsAckTimeout(err) == err # <<>> /\ err[1].type = "ErrTimeout" /\ err[1].IsAck

\* send.timedOut, were it to report a plain timeout
timedOut_NotAck(c) == [destroy(c) EXCEPT !.err = <<ErrTimeout(FALSE)>>]

\* send.timedOut: s.conn.destroy(ErrTimeout{IsAck: true})
timedOut(c) == [destroy(c) EXCEPT !.err = <<ErrTimeout(TRUE)>>]

\* The send-buffer without its acknowledged head
RECURSIVE TrimAcked(_)
TrimAcked(q) ==
    IF q # <<>> /\ q[1].acked THEN TrimAcked(Tail(q)) ELSE q

\* Inbound STATE at the sender
processState(c, h) ==
    LET marked == [i \in 1..Len(c.unacked) |->
                      IF Acks(h, c.unacked[i].seqNr)
                      THEN Ack(c.unacked[i]) ELSE c.unacked[i]]
        left == TrimAcked(marked)
    IN  [c EXCEPT !.unacked = left,
                  !.state = IF @ = "fin-sent" /\ left = <<>>
                            THEN "closed" ELSE @]

\* Drain the recv-buffer into the read buffer while the next segment is there
RECURSIVE drain(_)
drain(c) ==
    LET expected == (c.ack_nr + 1) % SeqMod
        next == {r \in c.inbound : r.seq_nr = expected}
    IN  IF next = {} THEN c
        ELSE LET r == CHOOSE x \in next : TRUE
             IN  drain([c EXCEPT !.ack_nr = expected,
                                 !.inbound = @ \ {r},
                                 !.readBuf = @ \o r.payload])

\* Inbound DATA or FIN at the receiver
processData(c, h) ==
    LET expected == (c.ack_nr + 1) % SeqMod
        index == (h.seq_nr + SeqMod - expected) % SeqMod
    IN  IF seqLess(h.seq_nr, expected)
        THEN [c EXCEPT !.pendState = TRUE]
        ELSE IF \/ index >= maxUnackedInbound
                \/ \E r \in c.inbound : r.seq_nr = h.seq_nr
        THEN [c EXCEPT !.pendState = TRUE]
        ELSE drain([c EXCEPT
                 !.inbound = @ \cup {[seq_nr |-> h.seq_nr, type |-> h.type,
                                      payload |-> h.payload]},
                 !.eof_pkt = IF h.type = "fin" THEN <<h.seq_nr>> ELSE @,
                 !.state = IF h.type = "fin" THEN "fin-received" ELSE @,
                 !.pendState = TRUE])

\* The bytes Write has accepted so far
Written == SubSeq(wr.B, 1, wr.written)

StreamInit ==
    /\ \E B \in Payloads, s0 \in InitSeqs :
          /\ wr = [B |-> B, written |-> 0, pc |-> "writing"]
          /\ sconn = [seq_nr |-> s0, unacked |-> <<>>, state |-> "connected",
                      err |-> <<>>]
          /\ rconn = [ack_nr |-> (s0 + SeqMod - 1) % SeqMod, inbound |-> {},
                      readBuf |-> <<>>, eof_pkt |-> <<>>, pendState |-> FALSE,
                      state |-> "connected"]
    /\ unet = {}
    /\ rd = [read |-> <<>>, eof |-> FALSE]
    /\ hist = [dropped |-> FALSE]

StreamIdle ==
    /\ wr = <<>>
    /\ sconn = <<>>
    /\ rconn = <<>>
    /\ unet = {}
    /\ rd = <<>>
    /\ hist = <<>>

\* io.CopyN -> utpsession.Write -> conn.Write: the next segment enters the
\* send-buffer and is sent; Write blocks while the window is full
StreamWrite ==
    /\ wr.pc = "writing"
    /\ sconn.state = "connected"
    /\ wr.written < Len(wr.B)
    /\ Len(sconn.unacked) < maxUnackedSends
    /\ LET n == Min(maxPayloadSize, Len(wr.B) - wr.written)
           payload == SubSeq(wr.B, wr.written + 1, wr.written + n)
           s == NewSend("data", sconn.seq_nr, payload)
       IN  /\ sconn' = [sconn EXCEPT !.seq_nr = (@ + 1) % SeqMod,
                                     !.unacked = Append(@, s)]
           /\ unet' = Transmit(unet, "receiver", resend(s))
           /\ wr' = [wr EXCEPT !.written = @ + n]
    /\ UNCHANGED <<rconn, rd, hist>>
    /\ UNCHANGED notStream

\* SendFile's deferred w.Close(), after io.CopyN returned (all bytes written,
\* or Write failed on the destroyed connection): utpsession.Close ->
\* conn.Close sends FIN with the next sequence number
StreamClose ==
    /\ wr.pc = "writing"
    /\ \/ wr.written = Len(wr.B)
       \/ sconn.state = "destroyed"
    /\ wr' = [wr EXCEPT !.pc = "closed"]
    /\ IF sconn.state = "connected"
       THEN LET s == NewSend("fin", sconn.seq_nr, <<>>)
            IN  /\ sconn' = [sconn EXCEPT !.seq_nr = (@ + 1) % SeqMod,
                                          !.unacked = Append(@, s),
                                          !.state = "fin-sent"]
                /\ unet' = Transmit(unet, "receiver", resend(s))
       ELSE UNCHANGED <<sconn, unet>>
    /\ UNCHANGED <<rconn, rd, hist>>
    /\ UNCHANGED notStream

\* The resend timer of the i-th send fires
StreamTimeoutResend(i) ==
    /\ i \in 1..Len(sconn.unacked)
    /\ sconn.unacked[i].timer
    /\ LET r == timeoutResend(sconn.unacked[i], sconn.state = "destroyed")
       IN  /\ sconn' = IF r.timedOut THEN timedOut(sconn)
                       ELSE [sconn EXCEPT !.unacked[i] = r.s]
           /\ unet' = Transmit(unet, "receiver", r.out)
    /\ UNCHANGED <<wr, rconn, rd, hist>>
    /\ UNCHANGED notStream

\* A datagram reaches the sender, as sent or damaged on the way:
\* utpsession.deliver, then conn.PacketIn
StreamAckIn(p, damaged) ==
    /\ p \in unet
    /\ p.to = "sender"
    /\ unet' = unet \ {p}
    /\ LET pkt == IF damaged THEN Tamper(p.pkt, "ciphertext") ELSE p.pkt
           d == deliver(StreamSession(FALSE), pkt)
       IN  IF d = <<>> \/ sconn.state = "destroyed"
           THEN UNCHANGED sconn
           ELSE sconn' = processState(sconn, d[1])
    /\ UNCHANGED <<wr, rconn, rd, hist>>
    /\ UNCHANGED notStream

\* A datagram reaches the receiver, as sent or damaged on the way
StreamDataIn(p, damaged) ==
    /\ p \in unet
    /\ p.to = "receiver"
    /\ unet' = unet \ {p}
    /\ LET pkt == IF damaged THEN Tamper(p.pkt, "ciphertext") ELSE p.pkt
           d == deliver(StreamSession(TRUE), pkt)
       IN  IF d = <<>>
           THEN UNCHANGED rconn
           ELSE rconn' = processData(rconn, d[1])
    /\ UNCHANGED <<wr, sconn, rd, hist>>
    /\ UNCHANGED notStream

\* The pending STATE packet leaves the receiver
StreamSendState ==
    /\ rconn.pendState
    /\ rconn' = [rconn EXCEPT !.pendState = FALSE]
    /\ unet' = Transmit(unet, "sender",
                        {Hdr("state", 0, rconn.ack_nr,
                             {r.seq_nr : r \in rconn.inbound}, <<>>)})
    /\ UNCHANGED <<wr, sconn, rd, hist>>
    /\ UNCHANGED notStream

\* utpsession.Read -> conn.Read returning k bytes
StreamRead(k) ==
    /\ ~rd.eof
    /\ k \in 1..Len(rconn.readBuf)
    /\ rd' = [rd EXCEPT !.read = @ \o SubSeq(rconn.readBuf, 1, k)]
    /\ rconn' = [rconn EXCEPT
                   !.readBuf = SubSeq(@, k + 1, Len(@))]
    /\ UNCHANGED <<wr, sconn, unet, hist>>
    /\ UNCHANGED notStream

\* conn.Read returning io.EOF: the reader has drained up to eof_pkt
StreamReadEOF ==
    /\ ~rd.eof
    /\ rconn.readBuf = <<>>
    /\ rconn.eof_pkt # <<>>
    /\ rconn.ack_nr = rconn.eof_pkt[1]
    /\ rd' = [rd EXCEPT !.eof = TRUE]
    /\ rconn' = [rconn EXCEPT !.state = "closed"]
    /\ UNCHANGED <<wr, sconn, unet, hist>>
    /\ UNCHANGED notStream

\* The network drops a datagram
NetDrop(p) ==
    /\ p \in unet
    /\ unet' = unet \ {p}
    /\ hist' = [hist EXCEPT !.dropped = TRUE]
    /\ UNCHANGED <<wr, sconn, rconn, rd>>
    /\ UNCHANGED notStream

StreamNext ==
    \/ StreamWrite
    \/ StreamClose
    \/ \E i \in 1..(maxUnackedSends + 1) : StreamTimeoutResend(i)
    \/ \E p \in unet, damaged \in BOOLEAN : StreamAckIn(p, damaged)
    \/ \E p \in unet, damaged \in BOOLEAN : StreamDataIn(p, damaged)
    \/ StreamSendState
    \/ \E k \in 1..MaxBytes : StreamRead(k)
    \/ StreamReadEOF
    \/ \E p \in unet : NetDrop(p)

\* The timers fire, the application writes, closes and reads, the receiver
\* sends its pending STATE: what the two ends do by themselves. The network
\* owes nothing.
StreamSteps ==
    \/ StreamWrite
    \/ StreamClose
    \/ \E i \in 1..(maxUnackedSends + 1) : StreamTimeoutResend(i)
    \/ StreamSendState
    \/ \E k \in 1..MaxBytes : StreamRead(k)
    \/ StreamReadEOF

\* No end stops while it has a step to take (every step of an end uses up a
\* byte, a timer or a pending packet, so no end can starve the other)
StreamFairness == WF_vars(StreamSteps)

(***************************************************************************)
(* sharedsocket/conn.go: handlerList as objects that share memory.  A       *)
(* slice is a backing array and a length; a handlerList is an object the    *)
(* Conn and readLoop hold by pointer.                                       *)
(***************************************************************************)
MaxLists == 4
CowHandlers == {"h1", "h2"}
NilArray == 0
NilList == 0
TheOutlet == 1

\* l.hs as a sequence
SliceOf(arrs, o) ==
    IF o.arr = NilArray THEN <<>> ELSE SubSeq(arrs[o.arr], 1, o.len)

\* What a reader of handlerList o finds
ListValue(arrs, o) == [hs |-> SliceOf(arrs, o), defaultConn |-> o.defaultConn]

\* The result of an operation on the list at p: the memory afterwards and
\* the pointer returned
Alloc(arrs, objs, newlist, dc) ==
    [arrs |-> Append(arrs, newlist),
     objs |-> Append(objs, [arr |-> Len(arrs) + 1, len |-> Len(newlist),
                            defaultConn |-> dc]),
     ptr |-> Len(objs) + 1]

\* handlerList.append: make, append(newlist, l.hs...), append(newlist, h)
cowAppend(arrs, objs, p, h) ==
    Alloc(arrs, objs, SliceOf(arrs, objs[p]) \o <<h>>, objs[p].defaultConn)

\* handlerList.removeIndex, were it append(l.hs[:i], l.hs[i+1:]...): the
\* elements after i move down inside l's own array
cowRemoveIndex_InPlace(arrs, objs, p, i) ==
    LET a == objs[p].arr
        n == objs[p].len
    IN  [arrs |-> [arrs EXCEPT ![a] = [j \in 1..Len(@) |->
                                          IF j >= i /\ j < n THEN @[j + 1] ELSE @[j]]],
         objs |-> Append(objs, [arr |-> a, len |-> n - 1,
                                defaultConn |-> objs[p].defaultConn]),
         ptr |-> Len(objs) + 1]

\* handlerList.removeIndex: make, append(newlist, l.hs[:i]...),
\* append(newlist, l.hs[i+1:]...)
cowRemoveIndex(arrs, objs, p, i) ==
    LET hs == SliceOf(arrs, objs[p])
    IN  Alloc(arrs, objs, SubSeq(hs, 1, i - 1) \o SubSeq(hs, i + 1, Len(hs)),
              objs[p].defaultConn)

\* handlerList.remove: the first i with l.hs[i] == h, or l itself
cowRemove(arrs, objs, p, h) ==
    LET hs == SliceOf(arrs, objs[p])
    IN  IF \E i \in 1..Len(hs) : hs[i] = h
        THEN cowRemoveIndex(arrs, objs, p,
                            CHOOSE i \in 1..Len(hs) :
                                /\ hs[i] = h
                                /\ \A j \in 1..(i - 1) : hs[j] # h)
        ELSE [arrs |-> arrs, objs |-> objs, ptr |-> p]

\* handlerList.setDefault: &handlerList{l.hs, dc}, the slice is shared
cowSetDefault(arrs, objs, p, dc) ==
    [arrs |-> arrs,
     objs |-> Append(objs, [arr |-> objs[p].arr, len |-> objs[p].len,
                            defaultConn |-> dc]),
     ptr |-> Len(objs) + 1]

\* c.handlers.Load()
Loaded == ListValue(harrs, hobjs[hptr])

\* readLoop between two datagrams; out is what became of the last one
NoDispatch(out) ==
    [snap |-> NilList, pos |-> 0, loaded |-> <<>>, seen |-> <<>>, out |-> out]

\* NewConn: c.handlers.Store(new(handlerList))
CowInit ==
    /\ harrs = <<>>
    /\ hobjs = <<[arr |-> NilArray, len |-> 0, defaultConn |-> NilList]>>
    /\ hptr = 1
    /\ hdisp = NoDispatch("none")
    /\ hpub = <<[hs |-> <<>>, defaultConn |-> NilList]>>

CowIdle ==
    /\ harrs = <<>>
    /\ hobjs = <<>>
    /\ hptr = NilList
    /\ hdisp = <<>>
    /\ hpub = <<>>

\* c.handlers.Store(r.ptr) after an operation that left the memory as r
CowStore(r) ==
    /\ harrs' = r.arrs
    /\ hobjs' = r.objs
    /\ hptr' = r.ptr
    /\ hpub' = [i \in 1..Len(r.objs) |->
                  IF i <= Len(hpub) THEN hpub[i] ELSE ListValue(r.arrs, r.objs[i])]
    /\ UNCHANGED hdisp
    /\ UNCHANGED notCow

\* Conn.AddHandler
CowAddHandler(h) ==
    /\ Len(hobjs) < MaxLists
    /\ CowStore(cowAppend(harrs, hobjs, hptr, h))

\* Conn.RemoveHandler
CowRemoveHandler(h) ==
    /\ Len(hobjs) < MaxLists
    /\ CowStore(cowRemove(harrs, hobjs, hptr, h))

\* Conn.DefaultConn when no outlet is registered
CowDefaultConn ==
    /\ Len(hobjs) < MaxLists
    /\ hobjs[hptr].defaultConn = NilList
    /\ CowStore(cowSetDefault(harrs, hobjs, hptr, TheOutlet))

\* Conn.unsetDefaultConn, from the outlet's Close
CowUnsetDefaultConn ==
    /\ Len(hobjs) < MaxLists
    /\ hobjs[hptr].defaultConn # NilList
    /\ CowStore(cowSetDefault(harrs, hobjs, hptr, NilList))

\* readLoop: l := c.handlers.Load() for the datagram just read
CowLoad ==
    /\ hdisp.snap = NilList
    /\ hdisp' = [snap |-> hptr, pos |-> 1, loaded |-> Loaded, seen |-> <<>>,
                 out |-> "pending"]
    /\ UNCHANGED <<harrs, hobjs, hptr, hpub>>
    /\ UNCHANGED notCow

\* readLoop: the next h of range l.hs, and what HandlePacket returns
CowOffer(res) ==
    /\ hdisp.snap # NilList
    /\ hdisp.pos <= hobjs[hdisp.snap].len
    /\ hdisp' = IF res THEN NoDispatch("claimed")
                ELSE [hdisp EXCEPT !.pos = @ + 1,
                                   !.seen = Append(@, harrs[hobjs[hdisp.snap].arr][hdisp.pos])]
    /\ UNCHANGED <<harrs, hobjs, hptr, hpub>>
    /\ UNCHANGED notCow

\* readLoop: the range is over, l.defaultConn is read and the dispatch ends
CowDeliver ==
    /\ hdisp.snap # NilList
    /\ hdisp.pos > hobjs[hdisp.snap].len
    /\ hdisp' = NoDispatch(IF hobjs[hdisp.snap].defaultConn = NilList
                           THEN "dropped" ELSE "outlet")
    /\ UNCHANGED <<harrs, hobjs, hptr, hpub>>
    /\ UNCHANGED notCow

CowNext ==
    \/ \E h \in CowHandlers : CowAddHandler(h)
    \/ \E h \in CowHandlers : CowRemoveHandler(h)
    \/ CowDefaultConn
    \/ CowUnsetDefaultConn
    \/ CowLoad
    \/ \E res \in BOOLEAN : CowOffer(res)
    \/ CowDeliver

(***************************************************************************)
(* utpconn: one send record from conn.write on.  The resend timer is a      *)
(* time.AfterFunc: when it fires, timeoutResend starts in a goroutine of    *)
(* its own and waits for conn.mu; Stop does not recall it.                  *)
(***************************************************************************)
MaxElapsed == 5     \* time.Since(s.started) observed, in resend timeouts
MaxSent == 3        \* conn.send calls observed
TheConnID == 7

\* The arguments of s.conn.send(s._type, s.connID, s.payload, s.seqNr)
connSend(s) ==
    [type |-> s.type, connID |-> TheConnID, payload |-> s.payload, seqNr |-> s.seqNr]

\* The packets resend puts on the wire, as calls of conn.send
Sent(s) == IF resend(s) = {} THEN <<>> ELSE <<connSend(s)>>

\* conn.write: the segment is on the wire once and its record holds the
\* send-buffer's only place
SendInit ==
    \E type \in {"data", "fin"}, seq \in InitSeqs :
        LET s == NewSend(type, seq, IF type = "data" THEN <<1>> ELSE <<>>)
        IN  snd = [s |-> s, fired |-> FALSE, elapsed |-> 0,
                   conn |-> [seq_nr |-> (seq + 1) % SeqMod, unacked |-> <<s>>,
                             state |-> "connected", err |-> <<>>],
                   out |-> Sent(s)]

SendIdle == snd = <<>>

\* Time passes
SendTick ==
    /\ snd.elapsed < MaxElapsed
    /\ snd' = [snd EXCEPT !.elapsed = @ + 1]
    /\ UNCHANGED notSend

\* The resend timer fires: timeoutResend is started and has yet to take
\* conn.mu
SendTimerFire ==
    /\ snd.s.timer
    /\ ~snd.fired
    /\ snd.elapsed >= snd.s.since
    /\ snd' = [snd EXCEPT !.fired = TRUE]
    /\ UNCHANGED notSend

\* send.timeoutResend under conn.mu, time.Since(s.started) read now
SendTimeoutResend ==
    /\ snd.fired
    /\ LET r == timeoutResend([snd.s EXCEPT !.since = snd.elapsed],
                              snd.conn.state = "destroyed")
       IN  /\ Len(snd.out) + Cardinality(r.out) <= MaxSent
           /\ snd' = [snd EXCEPT
                  !.fired = FALSE,
                  !.s = r.s,
                  !.conn = IF r.timedOut THEN timedOut(@)
                           ELSE IF @.unacked = <<>> THEN @
                           ELSE [@ EXCEPT !.unacked = <<r.s>>],
                  !.out = IF r.out = {} THEN @ ELSE @ \o Sent(snd.s)]
    /\ UNCHANGED notSend

\* A STATE packet acknowledges the segment: send.Ack under conn.mu, and the
\* record leaves the send-buffer
SendAck ==
    /\ snd.conn.state # "destroyed"
    /\ ~snd.s.acked
    /\ snd' = [snd EXCEPT !.s = Ack(@),
                          !.conn.unacked = TrimAcked(<<Ack(snd.s)>>)]
    /\ UNCHANGED notSend

\* The fast retransmit, were it to count as a resend and push the timer back
SendFastResend_Backoff ==
    /\ snd.conn.state # "destroyed"
    /\ Len(snd.out) < MaxSent
    /\ snd' = [snd EXCEPT !.out = @ \o Sent(snd.s),
                          !.s.numResends = @ + 1,
                          !.s.since = snd.elapsed + resendTimeout * (snd.s.numResends + 1)]
    /\ UNCHANGED notSend

\* The fast retransmit: send.resend under conn.mu
SendFastResend ==
    /\ snd.conn.state # "destroyed"
    /\ Len(snd.out) < MaxSent
    /\ snd' = [snd EXCEPT !.out = @ \o Sent(snd.s)]
    /\ UNCHANGED notSend

SendNext ==
    \/ SendTick
    \/ SendTimerFire
    \/ SendTimeoutResend
    \/ SendAck
    \/ SendFastResend

(***************************************************************************)
(* kcpxfer/xfer.go: one inbound transfer request on a Server               *)
(***************************************************************************)
AcceptTicks == 2        \* the 500 ms of time.AfterFunc, in ticks of 250 ms
MaxKcpTicks == 3        \* ticks the clock is followed for
MaxAcceptCalls == 2     \* Accept calls the handler makes at most
MaxRejectCalls == 2     \* Reject calls the handler makes at most

\* rlp.EncodeToBytes(&startResponse{Accept: a})
startResponse(a) == [Accept |-> a]

\* NewServer, with or without a Handler in its config; no request yet
KcpInit ==
    \E h \in BOOLEAN :
        kx = [serveFunc |-> h, talk |-> "none", resp |-> <<>>,
              accept |-> <<>>, xfer |-> FALSE, timer |-> "none",
              elapsed |-> 0, mu |-> "free", serving |-> FALSE,
              accepts |-> 0, rejects |-> 0, xfers |-> FALSE,
              closed |-> FALSE, routed |-> "none",
              order |-> <<>>, decided |-> <<>>]

KcpIdle == kx = <<>>

\* TransferRequest.doAccept up to its channel sends, on the request k: the
\* timer is stopped (a timer that fired already still runs its callback), the
\* decision goes to tr.accept; on accept the caller is then at the send on
\* server.registerXfer with tr.mu held, on reject the session is closed and
\* tr.xfer cleared.
doAccept(k, accepted) ==
    LET k1 == [k EXCEPT !.timer = IF @ = "armed" THEN "stopped" ELSE @,
                        !.accept = Append(@, accepted),
                        !.decided = Append(@, accepted)]
    IN  IF accepted THEN [k1 EXCEPT !.mu = "Accept"]
        ELSE [k1 EXCEPT !.closed = TRUE, !.xfer = FALSE]

\* TransferRequest.Reject on the request k, called by who
Reject(k, who) ==
    LET k1 == [k EXCEPT !.order = Append(@, [op |-> who, ret |-> "none"])]
    IN  IF ~k.xfer THEN k1 ELSE doAccept(k1, FALSE)

\* Server.handleTalk: a request that decodes arrives; the handler is at
\* s.startAsRecipient <- &creq
KcpTalkIn ==
    /\ kx.talk = "none"
    /\ kx' = [kx EXCEPT !.talk = "send"]
    /\ UNCHANGED notKcp

\* Server.loop, case tr := <-s.startAsRecipient.  Without a handler tr.Reject()
\* is called on the request as handleTalk made it; with one the state is made,
\* the timer armed and the handler started.  handleTalk goes on to
\* <-creq.accept.
KcpLoopStart ==
    /\ kx.talk = "send"
    /\ kx' = IF ~kx.serveFunc
             THEN [Reject(kx, "loop") EXCEPT !.talk = "wait"]
             ELSE [kx EXCEPT !.talk = "wait", !.xfer = TRUE, !.timer = "armed",
                             !.elapsed = 0, !.serving = TRUE]
    /\ UNCHANGED notKcp

\* The handler calls TransferRequest.Accept
KcpAccept ==
    /\ kx.serving
    /\ kx.accepts < MaxAcceptCalls
    /\ kx.mu = "free"
    /\ kx' = IF ~kx.xfer
             THEN [kx EXCEPT !.accepts = @ + 1,
                             !.order = Append(@, [op |-> "Accept", ret |-> "err"])]
             ELSE doAccept([kx EXCEPT !.accepts = @ + 1,
                                      !.order = Append(@, [op |-> "Accept",
                                                           ret |-> "nil"])],
                           TRUE)
    /\ UNCHANGED notKcp

\* Server.loop, case xfer := <-s.registerXfer, which lets Accept go on to
\* clear tr.xfer, unlock and return
KcpRegister ==
    /\ kx.mu = "Accept"
    /\ kx' = [kx EXCEPT !.xfers = TRUE, !.xfer = FALSE, !.mu = "free"]
    /\ UNCHANGED notKcp

\* The handler calls TransferRequest.Reject
KcpReject ==
    /\ kx.serving
    /\ kx.rejects < MaxRejectCalls
    /\ kx.mu = "free"
    /\ kx' = [Reject(kx, "Reject") EXCEPT !.rejects = @ + 1]
    /\ UNCHANGED notKcp

\* Time passes
KcpTick ==
    /\ kx.timer # "none"
    /\ kx.elapsed < MaxKcpTicks
    /\ kx' = [kx EXCEPT !.elapsed = @ + 1]
    /\ UNCHANGED notKcp

\* time.AfterFunc(500*time.Millisecond, tr.Reject): the timer expires and its
\* goroutine starts
KcpTimerFire ==
    /\ kx.timer = "armed"
    /\ kx.elapsed >= AcceptTicks
    /\ kx' = [kx EXCEPT !.timer = "fired"]
    /\ UNCHANGED notKcp

\* The timer's goroutine runs tr.Reject
KcpTimerReject ==
    /\ kx.timer = "fired"
    /\ kx.mu = "free"
    /\ kx' = [Reject(kx, "timer") EXCEPT !.timer = "ran"]
    /\ UNCHANGED notKcp

\* Server.handleTalk: xfer := <-creq.accept, the response is returned
KcpRespond ==
    /\ kx.talk = "wait"
    /\ kx.accept # <<>>
    /\ kx' = [kx EXCEPT !.talk = "done", !.accept = Tail(@),
                        !.resp = <<startResponse(Head(kx.accept))>>]
    /\ UNCHANGED notKcp

\* Server.loop, case pkt := <-s.packet, for a packet that carries the
\* transfer's id
KcpPacket ==
    /\ kx.talk # "none"
    /\ LET to == IF kx.xfers THEN "enqueue" ELSE "unknown transfer"
       IN  /\ to # kx.routed
           /\ kx' = [kx EXCEPT !.routed = to]
    /\ UNCHANGED notKcp

\* The steps of the server and of the runtime
KcpSteps ==
    \/ KcpLoopStart
    \/ KcpRegister
    \/ KcpTick
    \/ KcpTimerFire
    \/ KcpTimerReject
    \/ KcpRespond

KcpNext ==
    \/ KcpTalkIn
    \/ KcpAccept
    \/ KcpReject
    \/ KcpPacket
    \/ KcpSteps

(***************************************************************************)
(* Specifications: one per subsystem, the other subsystems idle            *)
(***************************************************************************)
InitSession ==
    /\ SessInit
    /\ StoreIdle
    /\ SockIdle
    /\ XferIdle
    /\ StreamIdle
    /\ SeqIdle
    /\ CowIdle
    /\ SendIdle
    /\ KcpIdle

InitStore ==
    /\ StoreInit
    /\ SessIdle
    /\ SockIdle
    /\ XferIdle
    /\ StreamIdle
    /\ SeqIdle
    /\ CowIdle
    /\ SendIdle
    /\ KcpIdle

InitSocket ==
    /\ SockInit
    /\ SessIdle
    /\ StoreIdle
    /\ XferIdle
    /\ StreamIdle
    /\ SeqIdle
    /\ CowIdle
    /\ SendIdle
    /\ KcpIdle

InitXfer ==
    /\ XferInit
    /\ SessIdle
    /\ StoreIdle
    /\ SockIdle
    /\ StreamIdle
    /\ SeqIdle
    /\ CowIdle
    /\ SendIdle
    /\ KcpIdle

SpecSession == InitSession /\ [][SessNext]_vars

SpecNonce == InitSession /\ [][NonceNext]_vars

SpecStore == InitStore /\ [][StoreNext]_vars

SpecSocket == InitSocket /\ [][SockNext]_vars

SpecOutlet == InitSocket /\ [][OutletNext]_vars

SpecHost == InitSocket /\ [][HostNext]_vars

SpecOutletLive == InitSocket /\ [][OutletNext]_vars /\ OutletFairness

SpecXfer == InitXfer /\ [][XferNext]_vars

\* The transfer with the packets of the session arriving at the server
ServeNext ==
    \/ XferNext
    \/ \E intact \in BOOLEAN : ServerPacketIn(intact)

SpecServe == InitXfer /\ [][ServeNext]_vars

SpecXferLive == InitXfer /\ [][XferNext]_vars /\ XferFairness

InitStream ==
    /\ StreamInit
    /\ SessIdle
    /\ StoreIdle
    /\ SockIdle
    /\ XferIdle
    /\ SeqIdle
    /\ CowIdle
    /\ SendIdle
    /\ KcpIdle

InitSeq ==
    /\ SeqInit
    /\ SessIdle
    /\ StoreIdle
    /\ SockIdle
    /\ XferIdle
    /\ StreamIdle
    /\ CowIdle
    /\ SendIdle
    /\ KcpIdle

SpecSeq == InitSeq /\ [][SeqNext]_vars

InitCow ==
    /\ CowInit
    /\ SessIdle
    /\ StoreIdle
    /\ SockIdle
    /\ XferIdle
    /\ StreamIdle
    /\ SeqIdle
    /\ SendIdle
    /\ KcpIdle

SpecCow == InitCow /\ [][CowNext]_vars

InitSend ==
    /\ SendInit
    /\ SessIdle
    /\ StoreIdle
    /\ SockIdle
    /\ XferIdle
    /\ StreamIdle
    /\ SeqIdle
    /\ CowIdle
    /\ KcpIdle

SpecSend == InitSend /\ [][SendNext]_vars

InitKcp ==
    /\ KcpInit
    /\ SessIdle
    /\ StoreIdle
    /\ SockIdle
    /\ XferIdle
    /\ StreamIdle
    /\ SeqIdle
    /\ CowIdle
    /\ SendIdle

\* The loop, handleTalk, the runtime's timers and the clock keep running; the
\* configured handler is free to call Accept or Reject or neither.
KcpFairness == WF_vars(KcpSteps)

SpecKcp == InitKcp /\ [][KcpNext]_vars /\ KcpFairness

SpecStream == InitStream /\ [][StreamNext]_vars /\ StreamFairness

(***************************************************************************)
(* Claims about the session layer                                          *)
(***************************************************************************)

\* C6: the two sides of one key agreement hold mirrored material: the
\* initiator's egress key and id are the recipient's ingress key and id, and
\* the initiator's ingress key and id are the recipient's egress key and id.
C6_KeyAgreementSymmetry ==
    /\ peer.initiator.egressKey = peer.recipient.ingressKey
    /\ peer.initiator.egressID = peer.recipient.ingressID
    /\ peer.initiator.ingressKey = peer.recipient.egressKey
    /\ peer.initiator.ingressID = peer.recipient.egressID

\* Both sessions are derived, the two directions use different material, and
\* the material is in use.
C6_Witness ==
    /\ peer.initiator.egressKey # peer.initiator.ingressKey
    /\ peer.initiator.egressID # peer.initiator.ingressID
    /\ peer.recipient.egressKey = peer.initiator.ingressKey
    /\ calls.initiator > 0
    /\ calls.recipient > 0

\* C7: Decode on one side of the packet Encode(m) produced on the other side
\* returns m without error, in both directions and for every counter value.
C7_RoundTrip ==
    (decoded # <<>> /\ decoded[1].genuine) =>
        decoded[1].res = [ok |-> TRUE, data |-> decoded[1].msg]

\* The initiator decoded a non-empty message of the recipient whose nonce
\* carried the largest counter value (the recipient's counter has wrapped).
C7_Witness ==
    /\ decoded # <<>>
    /\ decoded[1].genuine
    /\ decoded[1].side = "initiator"
    /\ decoded[1].res = [ok |-> TRUE, data |-> <<116>>]
    /\ wire[1].pkt.nonce.ctr = CtrMax
    /\ peer.recipient.nonceCounter = CtrZero

\* C8: over the Encode calls of one session the 4-byte counter prefixes of
\* the emitted nonces are strictly increasing and no nonce is emitted twice.
C8_NonceStrictlyIncreasing ==
    \A i, j \in 1..Len(sent[NonceSide]) :
        i < j => /\ CtrLess(sent[NonceSide][i].ctr, sent[NonceSide][j].ctr)
                 /\ sent[NonceSide][i] # sent[NonceSide][j]

(***************************************************************************)
(* Claims about the session store                                          *)
(***************************************************************************)
\* C9: a lookup (Get, or the lookup of HandlePacket) for address ip and id
\* only ever yields a session that was made for that address and has that
\* ingress id, and HandlePacket only ever runs the handler of such a session;
\* a session of another address with the same id is never returned or reached.
C9_StoreIPBinding ==
    lastOp # <<>> =>
        /\ lastOp[1].s # NoObj =>
              /\ sobj[lastOp[1].s].ip = lastOp[1].ip
              /\ sobj[lastOp[1].s].ingressID = lastOp[1].id
        /\ lastOp[1].invoked # NoObj =>
              /\ sobj[lastOp[1].invoked].ip = lastOp[1].ip
              /\ sobj[lastOp[1].invoked].ingressID = lastOp[1].id

\* Sessions of both hosts with the same ingress id are in the store, and a
\* packet with that id went to the handler of the sender's own session.
C9_Witness ==
    /\ lastOp # <<>>
    /\ lastOp[1].op = "HandlePacket"
    /\ lastOp[1].invoked # NoObj
    /\ \E k \in DOMAIN sessions :
          /\ k[2] = lastOp[1].id
          /\ k[1] # lastOp[1].ip
          /\ sobj[sessions[k]].handler # NoHandler

\* C10: a session that Get or HandlePacket finds went unused (since it was
\* stored or last found, whichever is later) for less than sessionTimeout.
C10_ExpiredNotFound ==
    lastOp # <<>> /\ lastOp[1].s # NoObj => lastOp[1].idle < SessionTimeout

(***************************************************************************)
(* Claims about the shared socket                                          *)
(***************************************************************************)
\* The dispatch of pump's datagram ended without a handler claiming it
Unclaimed == cur.fate \in {"nooutlet", "queued", "closed", "quit", "panic"}

\* C4: a datagram is offered to the handlers of its list snapshot in the
\* order of their AddHandler calls, one after the other from the first on;
\* no handler is offered it after one returned true, a claimed datagram
\* does not go on to the default outlet, and the outlet step is reached only
\* after every handler of the snapshot has declined.
C4_HandlerOrder ==
    LET o == cur.offered
        hs == pump.l.hs
    IN  /\ Len(o) <= Len(hs)
        /\ \A j \in 1..Len(o) : o[j].h = hs[j].h /\ o[j].stamp = hs[j].stamp
        /\ \A j, k \in 1..Len(o) : j < k => o[j].stamp < o[k].stamp
        /\ \A j \in 1..(Len(o) - 1) : ~o[j].res
        /\ (o # <<>> /\ o[Len(o)].res) => cur.fate = "claimed"
        /\ cur.fate = "claimed" => o # <<>> /\ o[Len(o)].res
        /\ (Unclaimed \/ pump.pc \in {"default", "send", "recycle"}) =>
              /\ Len(o) = Len(hs)
              /\ \A j \in 1..Len(o) : ~o[j].res

\* h1, h2, h3 were added in this order and an outlet is registered; the
\* datagram was offered to h1, which declined, then to h2, which claimed it.
C4_Witness ==
    /\ Len(pump.l.hs) = 3
    /\ pump.l.hs[3] = [h |-> "h3", stamp |-> 3]
    /\ pump.l.defaultConn # NoOutlet
    /\ cur.offered = <<[h |-> "h1", stamp |-> 1, res |-> FALSE],
                       [h |-> "h2", stamp |-> 2, res |-> TRUE]>>
    /\ cur.fate = "claimed"
    /\ pump.pc = "read"
    /\ dcs[pump.l.defaultConn].in = <<>>

\* C5 as stated: an unclaimed datagram is queued on the default outlet when
\* the list loaded for its dispatch holds one, and goes nowhere when not.
C5_UnclaimedToOutlet ==
    Unclaimed =>
        IF pump.l.defaultConn # NoOutlet
        THEN cur.fate = "queued"
        ELSE cur.fate = "nooutlet"

\* C5 amended: an unclaimed datagram goes nowhere when the list loaded for
\* its dispatch holds no outlet; when it holds one, the datagram is queued on
\* that outlet provided the outlet has not been closed and Conn.Close has not
\* closed the quit channel, and it is queued on no other outlet.
C5_UnclaimedToOpenOutlet ==
    Unclaimed =>
        /\ pump.l.defaultConn = NoOutlet <=> cur.fate = "nooutlet"
        /\ (/\ pump.l.defaultConn # NoOutlet
            /\ ~dcs[pump.l.defaultConn].closed
            /\ quit = "open") => cur.fate = "queued"
        /\ \A k \in Outlets :
              (\E j \in 1..Len(dcs[k].in) : dcs[k].in[j] = pump.d) =>
                  k = pump.l.defaultConn /\ cur.fate = "queued"

\* Two handlers declined the datagram and it is queued on the open outlet.
C5_Witness ==
    /\ cur.fate = "queued"
    /\ Len(cur.offered) = 2
    /\ pump.l.defaultConn # NoOutlet
    /\ ~dcs[pump.l.defaultConn].closed
    /\ quit = "open"
    /\ dcs[pump.l.defaultConn].in = <<pump.d>>

(***************************************************************************)
(* Claims about the file transfer                                          *)
(***************************************************************************)
\* C3: when the server's handler accepted the request and called
\* SendFile(size, reader), and Request returned without error, then Request
\* returned a reader (not nil) whose Size() is the announced size.
C3_RequestYieldsReader ==
    (/\ xreq.pc = "returned"
     /\ xreq.err = NoErr
     /\ xsrv.acceptInitNil
     /\ xsrv.handler \in {"start1", "start2", "established", "copy"}) =>
        /\ xreq.reader # <<>>
        /\ xreq.reader[1].size = FileSize

(***************************************************************************)
(* Claims about the store, continued                                       *)
(***************************************************************************)
\* Session o was stored, and stored or found by a lookup less than
\* sessionTimeout ago
Fresh(o) == lastUse[o] >= 0 /\ now - lastUse[o] < SessionTimeout

\* C11: a session stored or last found less than sessionTimeout ago is what
\* Get(its ip, its ingress id) returns (it, or a session stored under the same
\* key since), and the Get leaves the found session in the expiry queue with
\* the priority now + sessionTimeout, the latest expiry of the queue.
C11_FreshIsFound ==
    ~crashed =>
        \A o \in Objs :
            Fresh(o) =>
                LET r == get(sobj[o].ip, sobj[o].ingressID)
                IN  /\ r.s # NoObj
                    /\ r.s = o \/ lastUse[r.s] >= lastUse[o]
                    /\ \E i \in 1..Len(r.st.h) :
                          r.st.h[i] = [value |-> r.s,
                                       priority |-> now + SessionTimeout]
                    /\ \A i \in 1..Len(r.st.h) :
                          r.st.h[i].priority <= now + SessionTimeout

C11_Witness ==
    /\ lastOp # <<>>
    /\ lastOp[1].op = "Get"
    /\ lastOp[1].s # NoObj
    /\ lastOp[1].idle = 5
    /\ now = SessionTimeout
    /\ \E i \in 1..Len(exp) : exp[i] = [value |-> lastOp[1].s,
                                        priority |-> now + SessionTimeout]

\* C12: the sessions in the store were put there by Establish; an Establish
\* that panics (no handler set) stores nothing; HandlePacket invokes the
\* handler of the session it found or none, never a nil handler, and a
\* session whose handler is nil gets no packet.
C12_NoDispatchWithoutConsumer ==
    /\ [](/\ \A key \in DOMAIN sessions : lastUse[sessions[key]] >= 0
          /\ (lastOp # <<>> /\ lastOp[1].op = "HandlePacket") =>
                /\ lastOp[1].invoked \in {NoObj, lastOp[1].s}
                /\ lastOp[1].invoked # NoObj =>
                      sobj[lastOp[1].invoked].handler # NoHandler)
    /\ [][(crashed' /\ ~crashed) =>
             (sessions' = sessions /\ exp' = exp /\ sobj' = sobj)]_vars

C12_Witness ==
    /\ lastOp # <<>>
    /\ lastOp[1].op = "HandlePacket"
    /\ lastOp[1].s # NoObj
    /\ sobj[lastOp[1].s].handler = NoHandler
    /\ lastOp[1].invoked = NoObj

\* C13: a packet that HandlePacket matches to a session and whose GCM tag
\* does not verify leaves the session as it was: nothing is passed to the
\* transport and the session's expiry is not renewed.  (HandlePacket assigns
\* no field of a Session, so keys and nonce counter stay.)
C13_AuthFailureChangesNothing ==
    (/\ lastOp # <<>>
     /\ lastOp[1].op = "HandlePacket"
     /\ lastOp[1].s # NoObj
     /\ ~lastOp[1].intact) =>
        /\ lastOp[1].passed = <<>>
        /\ ~lastOp[1].renewed

\* C14: HandlePacket claims a packet (returns true, having invoked the
\* handler once) exactly when it found a session for the source IP and the
\* id, and that session is unexpired: stored or last found less than
\* sessionTimeout ago.  Short packets and unknown ids find no session.
C14_ClaimsExactlyLiveSessions ==
    (lastOp # <<>> /\ lastOp[1].op = "HandlePacket") =>
        /\ lastOp[1].invoked = lastOp[1].s
        /\ lastOp[1].s # NoObj =>
              /\ sessionKey(lastOp[1].s) = <<lastOp[1].ip, lastOp[1].id>>
              /\ lastOp[1].idle < SessionTimeout

(***************************************************************************)
(* Claims about the file transfer handshake, continued                     *)
(***************************************************************************)
\* The caller of Request has given up: its context is done or a TALK call
\* failed
GaveUp == xreq.err # NoErr

C16_InitAlwaysAnswered ==
    /\ (xsrv.init = "waitAccept") ~> (xsrv.init = "done")
    /\ [](xsrv.init = "done" =>
             /\ xcall.init.resp # <<>>
             /\ xcall.init.resp[1].OK = xsrv.acceptInitNil)

\* C17: after an xfer-init response with ok=false Request returns the
\* rejection without waiting for anything else, and the transfer is no
\* longer in the table
C17_RejectionFailsRequest ==
    /\ (xreq.err = "server rejected transfer") ~> (xreq.pc = "returned")
    /\ [](xreq.err = "server rejected transfer" => ~xtab)

\* C18: once the caller's context is done Request returns the context's
\* error, by then the transfer is out of the table, and a start request
\* that reaches Client.loop after the return is not accepted
C18_CancelRemovesTransfer ==
    /\ (xreq.err = "context") ~> (xreq.pc = "returned")
    /\ [](xreq.pc = "returned" /\ xreq.err = "context" => ~xtab)
    /\ [][\A j \in StartRuns :
            (/\ xreq.pc = "returned" /\ xreq.err = "context"
             /\ xhs[j].pc = "sendStart" /\ xhs'[j].pc = "waitAccept")
                => xaccept'[j] = <<>>]_vars

\* C19: when Client.loop handles a tick and the transfer has been in the
\* table for transferStartTimeout or longer with no start request, it takes
\* the transfer out of the table with the handshake timeout error; it never
\* does so to a transfer that has waited less; and the Request waiting for a
\* transfer that timed out returns
C19_HandshakeTimeout ==
    /\ [][(/\ xclk.due /\ ~xclk'.due
           /\ xtab /\ xt.acceptStart = NoChan
           /\ xclk.now - xclk.created >= transferStartTimeout)
            => (~xtab' /\ xt'.err = "errTransferHandshakeTimeout")]_vars
    /\ [][(xtab /\ ~xtab' /\ xt'.err = "errTransferHandshakeTimeout")
            => xclk.now - xclk.created >= transferStartTimeout]_vars
    /\ (xt.err = "errTransferHandshakeTimeout") ~> (xreq.pc = "returned")

\* C20: the second xfer-start request is sent only after the first TALK
\* call failed; when the second fails too SendFile fails; a response with
\* ok=false ends SendFile with errCanceled and without a further request;
\* and a SendFile that failed has established no session
C20_StartRetriedOnce ==
    /\ xcall.start2.caller # "none" => xcall.start1.caller = "failed"
    /\ xcall.start2.caller = "failed" =>
          (xsrv.handler = "finished" /\ xsrv.err = "talk error")
    /\ \A j \in StartRuns :
          (xcall[StartCall(j)].caller = "got" /\ ~xcall[StartCall(j)].resp[1].OK) =>
             /\ xsrv.handler = "finished" /\ xsrv.err = "errCanceled"
             /\ j = 1 => xcall.start2.caller = "none"
    /\ xsrv.err # NoErr => (~xsrv.session /\ ~xsrv.connected)

\* The first call failed and the retry was answered ok=false
C20_Witness ==
    /\ xcall.start1.caller = "failed"
    /\ xcall.start2.caller = "got" /\ ~xcall.start2.resp[1].OK
    /\ xsrv.err = "errCanceled" /\ ~xsrv.session

\* C21: however often the handler calls Accept, one init decision is sent;
\* a call after the first returns errAlreadyAccepted; and a SendFile that
\* returned errNotAccepted sent no xfer-start request and made no session
C21_AcceptOnce ==
    /\ xsrv.accepts >= 1 =>
          Len(xsrv.acceptInit) + (IF xsrv.init = "done" THEN 1 ELSE 0) = 1
    /\ xsrv.accepts >= 2 => xsrv.acceptRet = "errAlreadyAccepted"
    /\ xsrv.accepts = 1 => xsrv.acceptRet = NoErr
    /\ xsrv.err = "errNotAccepted" =>
          /\ xsrv.accepts = 0
          /\ xcall.start1 = NoCall /\ xcall.start2 = NoCall
          /\ ~xsrv.session /\ ~xsrv.connected

\* Accept was called twice and the one decision has been answered
C21_Witness ==
    /\ xsrv.accepts = 2 /\ xsrv.acceptRet = "errAlreadyAccepted"
    /\ xsrv.init = "done" /\ xsrv.acceptInit = <<>>

(***************************************************************************)
(* Claims about the stream                                                 *)
(***************************************************************************)
\* C1: whatever the network drops, damages or reorders, the bytes Read has
\* returned at the receiver are at every moment a prefix of the bytes B given
\* to the sender, and unless a segment reaches the write timeout (which
\* destroys the sender's connection) Read eventually has returned all of B.
C1_StreamIntegrity ==
    /\ [](IsPrefix(rd.read, wr.B))
    /\ <>(sconn.state = "destroyed" \/ rd.read = wr.B)

C1_Witness ==
    /\ rd.read = wr.B
    /\ Len(wr.B) = MaxBytes
    /\ hist.dropped
    /\ sconn.state # "destroyed"

\* C2: Read reports EOF at the receiver only after the sender's Close, and
\* only when it has returned exactly the bytes written before the Close; once
\* the sender has closed, the receiver reaches EOF unless a segment reaches
\* the write timeout.
C2_ReliableClose ==
    /\ [](rd.eof => (wr.pc = "closed" /\ rd.read = Written))
    /\ (wr.pc = "closed") ~> (rd.eof \/ sconn.state = "destroyed")

C2_Witness ==
    /\ rd.eof
    /\ rd.read = wr.B
    /\ Len(wr.B) = MaxBytes
    /\ sconn.state = "closed"
    /\ hist.dropped

\* C22: when the resend timer of an unacked send fires writeTimeout or more
\* after the first send, the connection is destroyed with an error for which
\* IsTimeout and IsAckTimeout hold; when it fires earlier on a live
\* connection, the segment is sent again (the network takes it unless it is
\* full) and the connection stays as it is
C22_AckTimeout ==
    [][\A i \in 1..(maxUnackedSends + 1) :
         (StreamTimeoutResend(i) /\ ~sconn.unacked[i].acked) =>
            LET s == sconn.unacked[i]
                pk == [to |-> "receiver",
                       pkt |-> packetOut(StreamSession(FALSE),
                                         Hdr(s.type, s.seqNr, 0, {}, s.payload))]
            IN  IF s.since >= writeTimeout
                THEN /\ sconn'.state = "destroyed"
                     /\ IsTimeout(sconn'.err) /\ IsAckTimeout(sconn'.err)
                ELSE /\ sconn.state # "destroyed"
                     /\ sconn'.state = sconn.state /\ sconn'.err = <<>>
                     /\ sconn'.unacked[i].numResends = s.numResends + 1
                     /\ pk \in unet' \/ Cardinality(unet \cup {pk}) > MaxInFlight]_vars

\* A send went unacked through its resends until the write timeout
C22_Witness ==
    /\ sconn # <<>>
    /\ sconn.state = "destroyed"
    /\ IsAckTimeout(sconn.err)
    /\ wr.written >= 1

(***************************************************************************)
(* Claims about the default outlet                                         *)
(***************************************************************************)
\* A call of the API has just returned or, for a first Close, begun
Called(name) == slast' # slast /\ slast'[1].op = name

\* A defaultConn.Close of outlet k is between close(dc.in) and the end of
\* unsetDefaultConn
Closing(k) ==
    \/ dcloser.pc = "unset" /\ dcloser.dc = k
    \/ closer.pc = "unset" /\ closer.dcToClose = k

\* C23: the registered outlet stays registered until it is closed, and
\* DefaultConn returns it; an outlet that is not closed is the registered
\* one, so there is one at most; an outlet whose Close has returned is not
\* registered; a Close of a closed outlet changes neither the registration
\* nor any outlet; and DefaultConn with no outlet registered returns a new,
\* open one and registers it
C23_OneDefaultOutlet ==
    /\ [](\A k \in Outlets :
            /\ ~dcs[k].closed => hlist.defaultConn = k
            /\ (dcs[k].closed /\ ~Closing(k)) => hlist.defaultConn # k)
    /\ [][(hlist.defaultConn # NoOutlet /\ ~dcs[hlist.defaultConn].closed)
              => hlist'.defaultConn = hlist.defaultConn]_vars
    /\ [][Called("DefaultConn") =>
              LET k == slast'[1].k
              IN  /\ hlist'.defaultConn = k
                  /\ hlist.defaultConn # NoOutlet => k = hlist.defaultConn
                  /\ hlist.defaultConn = NoOutlet =>
                        (k \notin Outlets /\ dcs'[k] = newDefaultConn)]_vars
    /\ [][(Called("OutletClose") /\ ~slast'[1].entered)
              => (hlist' = hlist /\ dcs' = dcs)]_vars

\* The first outlet is closed, a second one is registered and open, and the
\* first was closed once more
C23_Witness ==
    /\ Len(dcs) = 2 /\ dcs[1].closed /\ ~dcs[2].closed
    /\ hlist.defaultConn = 2
    /\ slast = <<[op |-> "OutletClose", k |-> 1, entered |-> FALSE]>>

\* C24: a packet returned by a read of an outlet has the bytes and the
\* source address of one and the same unclaimed datagram; the queue of an
\* outlet holds datagrams in the order of their arrival, each once, and a
\* read takes the first
C24_ReadsAreDatagrams ==
    /\ (slast # <<>> /\ slast[1].op = "Read" /\ slast[1].p # <<>>) =>
          /\ slast[1].p[1].payload = slast[1].p[1].addr
          /\ slast[1].p[1].addr \in 1..ndgram
    /\ \A k \in Outlets : \A i, j \in 1..Len(dcs[k].in) :
          i < j => dcs[k].in[i] < dcs[k].in[j]

\* The first Conn.Close has returned
ConnClosed == quit = "nil" /\ closer.pc = "idle"

\* C25: only one call of Conn.Close goes past the test of c.quit; that call
\* ends readLoop and returns (unless the program has crashed meanwhile); once
\* c.quit is nil the socket is closed and readLoop has ended, and from then on
\* no datagram is received, offered or queued; when the call has returned,
\* the outlet that was registered is closed and a read of it that finds its
\* queue empty reports EOF; a later call returns nil and changes nothing
C25_CloseIdempotent ==
    /\ (closer.pc = "wait") ~> (ConnClosed \/ ~Running)
    /\ [](quit = "nil" => (sockClosed /\ pump.pc = "exited"))
    /\ [](ConnClosed /\ closer.dcToClose # NoOutlet =>
             /\ dcs[closer.dcToClose].closed
             /\ dcs[closer.dcToClose].inClosed)
    /\ [][quit = "nil" =>
             /\ ndgram' = ndgram /\ cur' = cur /\ pump' = pump
             /\ \A k \in Outlets : Len(dcs'[k].in) <= Len(dcs[k].in)]_vars
    /\ [][(Called("Read") /\ ConnClosed /\ slast'[1].k = closer.dcToClose
              /\ dcs[slast'[1].k].in = <<>>) => slast'[1].eof]_vars
    /\ [][Called("ConnClose") =>
             IF slast'[1].first THEN quit = "open"
             ELSE /\ quit = "nil"
                  /\ UNCHANGED <<hlist, nextStamp, dcs, dmutex, cmutex, quit,
                                 sockClosed, pump, closer, dcloser, ndgram, cur>>]_vars

\* readLoop is inside deliver and needs dc.mutex of outlet k, in getPacket or
\* in recyclePacket
PumpNeedsMutex(k) ==
    /\ pump.pc \in {"default", "recycle"}
    /\ pump.l.defaultConn = k

\* C31: Conn.Close and defaultConn.Close called concurrently, with readLoop
\* possibly inside deliver, both return: there is no state in which
\* Conn.Close holds c.mutex waiting for readLoop to end, defaultConn.Close
\* holds dc.mutex waiting for c.mutex, and readLoop waits for dc.mutex
C31_ClosersReturn ==
    ~ /\ Running
      /\ closer.pc = "wait" /\ cmutex = "closer"
      /\ dcloser.pc = "unset" /\ dmutex[dcloser.dc] = "dcloser"
      /\ PumpNeedsMutex(dcloser.dc)

\* C30: readLoop is never at deliver's send with the outlet's queue closed,
\* and so never panics, however a Close of the outlet or of the Conn
\* interleaves with the dispatch
C30_NoSendOnClosedQueue ==
    /\ pump.pc = "send" => ~dcs[pump.l.defaultConn].inClosed
    /\ pump.pc # "panicked"

(***************************************************************************)
(* Claims about the host                                                   *)
(***************************************************************************)
\* C26 as stated: the session store is offered a datagram only after the
\* datagram was handed to discovery
C26_DiscoveryFirst ==
    [][Len(cur'.offered) > Len(cur.offered) => cur.fate = "queued"]_vars

\* C26 amended: the session store is the only handler and is registered
\* once discovery has the default outlet, which stays registered until
\* discovery is closed; a datagram dispatched with the
\* store registered is offered to the store first and goes on to discovery's
\* outlet only after the store declined it; a datagram the store claimed is
\* on no outlet.
C26_StoreFirst ==
    /\ hlist.hs # <<>> =>
          /\ hlist.hs = <<[h |-> sessionStore, stamp |-> 1]>>
          /\ hlist.defaultConn = 1 \/ dcs[1].closed
    /\ (pump.l.hs # <<>> /\ (pump.pc \in {"default", "send"} \/ cur.fate = "queued")) =>
          cur.offered = <<[h |-> sessionStore, stamp |-> 1, res |-> FALSE]>>
    /\ cur.fate = "claimed" =>
          /\ cur.offered = <<[h |-> sessionStore, stamp |-> 1, res |-> TRUE]>>
          /\ \A k \in Outlets : \A j \in 1..Len(dcs[k].in) : dcs[k].in[j] # pump.d

\* The store declined a datagram, which now waits on discovery's outlet
C26_Witness ==
    /\ pump.l.hs # <<>>
    /\ cur.offered = <<[h |-> sessionStore, stamp |-> 1, res |-> FALSE]>>
    /\ cur.fate = "queued"
    /\ dcs[1].in = <<pump.d>>

(***************************************************************************)
(* Claims about the session layer, continued                               *)
(***************************************************************************)
\* C35: an Encode whose random source fails returns an error and emits no
\* packet, and no packet of the session carries the counter value that the
\* failed call consumed.
C35_FailedNonceNotReused ==
    /\ [](\A i \in 1..Len(failed[NonceSide]), j \in 1..Len(sent[NonceSide]) :
             sent[NonceSide][j].ctr # failed[NonceSide][i])
    /\ [][Len(failed'[NonceSide]) > Len(failed[NonceSide]) =>
             /\ encErr'[NonceSide]
             /\ wire' = wire
             /\ sent' = sent]_vars

\* An Encode failed at the largest counter value, and the next one emitted
\* a packet with the counter wrapped to zero
C35_Witness ==
    /\ failed[NonceSide] = <<CtrMax>>
    /\ Len(sent[NonceSide]) = 1
    /\ sent[NonceSide][1].ctr = CtrZero
    /\ wire # <<>> /\ wire[1].pkt.nonce = sent[NonceSide][1]
    /\ ~encErr[NonceSide]

(***************************************************************************)
(* Claims about the session store, continued                               *)
(***************************************************************************)
\* C33: when a session is stored under the key of a stored session, lookups
\* return the later one and the earlier one is evicted completely: the map
\* holds the session stored or found last under its key, and the expiry
\* queue holds no entry of another session with that key.
C33_LastWriterWins ==
    \A key \in DOMAIN sessions :
        /\ \A o \in Objs :
              (sessionKey(o) = key /\ lastUse[o] >= 0) =>
                  lastUse[sessions[key]] >= lastUse[o]
        /\ \A e \in 1..Len(exp) :
              sessionKey(exp[e].value) = key => exp[e].value = sessions[key]

\* The positions of the expiry queue that hold session o
EntriesOf(o) == {e \in 1..Len(exp) : exp[e].value = o}

\* C34: the session map and the expiry queue hold exactly the same sessions:
\* every session in the map has exactly one queue entry, at its heapIndex
\* and with its latest expiry, and every queue entry belongs to the session
\* mapped under its key.
C34_MapMatchesQueue ==
    /\ \A key \in DOMAIN sessions :
          LET o == sessions[key]
          IN  /\ Cardinality(EntriesOf(o)) = 1
              /\ EntriesOf(o) = {heapIndex[o] + 1}
              /\ \A e \in EntriesOf(o) :
                    exp[e].priority = lastUse[o] + SessionTimeout
    /\ \A e \in 1..Len(exp) :
          /\ sessionKey(exp[e].value) \in DOMAIN sessions
          /\ sessions[sessionKey(exp[e].value)] = exp[e].value

(***************************************************************************)
(* Claims about the client's start handler.                                *)
(***************************************************************************)
\* The start handlers whose SessionStore.Recipient call made a session
StartsWithSession ==
    {j \in StartRuns : xhs[j].resp # <<>> /\ xhs[j].resp[1].OK}

\* C39: for one client transfer at most one xfer-start request is accepted:
\* after a start request was accepted and got its session, a repeated request
\* with the same id is not handed the transfer, makes no second session, and
\* no start handler stays blocked on the started channel after Request left.
C39_OneStartAccepted ==
    /\ Cardinality(StartsWithSession) <= 1
    /\ \A j \in StartRuns :
          (xhs[j].pc = "relay" /\ ~HasRoom(xstarted)) => xreq.pc = "wait"

(***************************************************************************)
(* Claims about the server's session.                                      *)
(***************************************************************************)
\* C38: on the server no inbound session packet is handed to deliver before
\* connect has attached the stream connection: no call of deliver finds the
\* utpsession without its conn.
C38_ConnectBeforeDeliver ==
    xsrv.deliver \in {"none", "decode error", "PacketIn"}

(***************************************************************************)
(* Claims about kcpxfer's transfer requests.                               *)
(***************************************************************************)
\* C40: every inbound transfer request gets exactly one decision and that
\* decision is eventually returned as the TALK response; it is accept exactly
\* when the handler's Accept ran before Reject and before the timer; after
\* the decision Accept fails with an error and Reject and the timer change
\* nothing; and only an accepted transfer is registered for packet routing.
C40_OneDecision ==
    /\ [](Len(kx.decided) <= 1)
    /\ [](kx.resp # <<>> =>
            /\ kx.decided = <<kx.resp[1].Accept>>
            /\ kx.resp[1].Accept = (kx.order[1].op = "Accept"))
    /\ [](\A i \in 1..Len(kx.order) :
            kx.order[i].op = "Accept" =>
               kx.order[i].ret = (IF i = 1 THEN "nil" ELSE "err"))
    /\ [][(kx.decided # <<>> /\ (KcpReject \/ KcpTimerReject \/ KcpAccept)) =>
             /\ kx'.decided = kx.decided
             /\ kx'.accept = kx.accept
             /\ kx'.closed = kx.closed
             /\ kx'.xfers = kx.xfers]_vars
    /\ [](kx.xfers => kx.decided = <<TRUE>>)
    /\ [](kx.routed = "enqueue" => kx.decided = <<TRUE>>)
    /\ (kx.talk # "none") ~> (kx.talk = "done")

(***************************************************************************)
(* Claims about the send record.                                           *)
(***************************************************************************)
\* C36: a segment that has been acked is never retransmitted and never
\* destroys the connection: when timeoutResend runs after the ack, it sends
\* nothing, leaves the timer unarmed and raises no ack timeout, however long
\* ago the segment was sent first.
C36_AckedSendIsQuiet ==
    [][(SendTimeoutResend /\ snd.s.acked) =>
          /\ snd'.out = snd.out
          /\ ~snd'.s.timer
          /\ snd'.conn = snd.conn]_vars

\* C37: a fast retransmit sends the segment again with its original type,
\* connection id, payload and sequence number and leaves the resend count
\* and the resend timer as they were, and does nothing for an acked segment;
\* only the timer-driven resend increments the count, and it re-arms the
\* timer at the resend timeout multiplied by the new count.
C37_FastResendKeepsBackoff ==
    /\ [][SendFastResend =>
             /\ snd'.s = snd.s
             /\ snd'.out = IF snd.s.acked THEN snd.out
                           ELSE Append(snd.out, snd.out[1])]_vars
    /\ [][(snd # <<>> /\ snd'.s.numResends # snd.s.numResends) =>
             /\ SendTimeoutResend
             /\ snd'.s.numResends = snd.s.numResends + 1
             /\ snd'.s.timer
             /\ snd'.s.since = snd.elapsed + resendTimeout * snd'.s.numResends
             /\ snd'.out = Append(snd.out, snd.out[1])]_vars

\* The segment went out three times, once by the timer and once by a fast
\* retransmit after it, and the timer is still due one resend timeout (the
\* count being 1) after the timer-driven resend
C37_Witness ==
    /\ snd # <<>>
    /\ Len(snd.out) = 3
    /\ snd.s.numResends = 1
    /\ snd.s.timer /\ ~snd.s.acked
    /\ snd.s.since = 2 /\ snd.elapsed = 3

(***************************************************************************)
(* Claims about the handler list.                                          *)
(***************************************************************************)

\* C32: a handlerList that was published is never modified; each datagram
\* is dispatched against the one list loaded at the start of its dispatch;
\* RemoveHandler of a handler that is not registered leaves the list
\* unchanged; AddHandler and RemoveHandler do not change the default outlet.
C32_CopyOnWrite ==
    /\ [](\A i \in 1..Len(hobjs) : ListValue(harrs, hobjs[i]) = hpub[i])
    /\ [](hdisp # <<>> /\ hdisp.snap # NilList =>
             /\ ListValue(harrs, hobjs[hdisp.snap]) = hdisp.loaded
             /\ hdisp.seen = SubSeq(hdisp.loaded.hs, 1, hdisp.pos - 1))
    /\ [][\A h \in CowHandlers :
             (CowRemoveHandler(h) /\ \A i \in 1..Len(Loaded.hs) : Loaded.hs[i] # h) =>
                 /\ hptr' = hptr
                 /\ ListValue(harrs', hobjs'[hptr']) = Loaded]_vars
    /\ [][(\E h \in CowHandlers : CowAddHandler(h) \/ CowRemoveHandler(h)) =>
             hobjs'[hptr'].defaultConn = hobjs[hptr].defaultConn]_vars

\* readLoop is half way through a list of two handlers, and meanwhile the
\* handler it offered the datagram to first has been removed
C32_Witness ==
    /\ hdisp # <<>> /\ hdisp.snap # NilList
    /\ hdisp.snap # hptr
    /\ Len(hdisp.loaded.hs) = 2
    /\ hdisp.seen = <<hdisp.loaded.hs[1]>>
    /\ Loaded.hs = <<hdisp.loaded.hs[2]>>

(***************************************************************************)
(* Claims about seqLess.                                                   *)
(***************************************************************************)

\* (x - y) mod 65536
SeqDiff(x, y) == (x + SeqMod - y) % SeqMod

\* C27 (P9): for 16-bit a and b with (b - a) mod 65536 <= 32767,
\* seqLess(a, b) is true if and only if a # b.
C27_SeqLessCorrect ==
    (sq # <<>> /\ sq.pc = "done" /\ SeqDiff(sq.b, sq.a) <= SeqHalf - 1) =>
        (sq.less <=> sq.a # sq.b)

\* seqLess was asked about a just before the wrap and b just after it
C27_Witness ==
    /\ sq # <<>> /\ sq.pc = "done"
    /\ sq.a = SeqMod - 1 /\ sq.b = 1
    /\ sq.less /\ ~sq.rev

\* C28: seqLess(a, b) is true if and only if (a - b) mod 65536 lies strictly
\* between 32768 and 65536; seqLess is irreflexive, and seqLess(a, b) and
\* seqLess(b, a) are never both true.
C28_SeqLessRange ==
    (sq # <<>> /\ sq.pc = "done") =>
        /\ sq.less <=> (SeqDiff(sq.a, sq.b) > SeqHalf /\ SeqDiff(sq.a, sq.b) < SeqMod)
        /\ sq.a = sq.b => ~sq.less
        /\ ~(sq.less /\ sq.rev)

(***************************************************************************)
(* Claims about the key derivation.                                        *)
(***************************************************************************)

\* Bytes [lo, hi) of HKDF-SHA256 with an empty salt and the given info prefix
IsBlock(x, prefix, lo, hi) ==
    /\ x.salt = <<>>
    /\ Len(x.hkdf) = 2
    /\ x.info[1] = prefix
    /\ x.lo = lo /\ x.hi = hi

\* Both roles hold the same 48 bytes, split key(16), key(16), id(8), id(8),
\* the recipient with ingress and egress exchanged
DerivedWith(prefix) ==
    LET i == peer.initiator
        r == peer.recipient
    IN  /\ IsBlock(i.ingressKey, prefix, 0, 16)
        /\ IsBlock(i.egressKey, prefix, 16, 32)
        /\ IsBlock(i.ingressID, prefix, 32, 40)
        /\ IsBlock(i.egressID, prefix, 40, 48)
        /\ r.ingressKey = i.egressKey /\ r.egressKey = i.ingressKey
        /\ r.ingressID = i.egressID /\ r.egressID = i.ingressID

\* C29: both roles derive the session material with HKDF-SHA256 over
\* initiator-secret || recipient-secret, an empty salt, 48 bytes split as
\* key(16), key(16), id(8), id(8), and the info string
\* "discv5 sub-protocol session" followed by the protocol name.
C29_DeriveAsDocumented == DerivedWith(DocInfoPrefix)
====
